---- MODULE Spec2Model ----
(***************************************************************************)
(* Model of the rectification / segmentation-mask / metrics engine of      *)
(* sae-sam (modules/image_rectification.py, modules/image_segmentation.py, *)
(* modules/metrics_estimation.py, modules/apex_pipeline.py).               *)
(*                                                                         *)
(* A box is a tuple <<x1, y1, x2, y2>> of integers (Python list            *)
(* [x1, y1, x2, y2]; TLA+ index k+1 is Python index k).  An image is       *)
(* represented by its shape <<width, height>> where only the shape         *)
(* matters, and by its pixels where the content matters.                   *)
(***************************************************************************)
EXTENDS Integers, Sequences, FiniteSets, TLC

VARIABLES
    scenario,        \* which family of inputs this behaviour draws from
    \* ---- filter_colliding_boxes, applied as a function
    f_in,            \* the list handed to the last application
    f_bins,          \* boxes_bins of the last application (lists of indices)
    f_out,           \* the list returned by the last application
    f_prev,          \* the list returned by the application before it
    f_n,             \* number of applications made
    \* ---- ImageRectification object
    rect_pc,         \* "new" (constructed) or "set" (set_detected_boxes done)
    cfg,             \* barrier dimensions and ratio given to __init__
    img,             \* shape <<width, height>> of the images of this run
    pil_empty_ok,    \* whether the imaging library resizes an empty section
    collumn_boxes,   \* self.collumn_boxes
    barrier_box,     \* self.barrier_box (None: attribute not yet set)
    rectified_image, \* self.rectified_image: None or shape <<width, height>>
    snip_log,        \* one record per snip_rectify_image call made
    barrier_boxes_in,\* the barrier list handed to set_detected_boxes, kept in
                     \* the runs that read the ratios (<<>> otherwise)
    ratio_call,      \* outcome of the last get_meters_pixel_ratio call
    \* ---- ImageSegmentation object
    seg_pc,          \* "idle", or "drawing" inside the loop of segment_classes
    image_detections_mask, \* self.image_detections_mask: a code per pixel
    \* ---- MetricsEstimation object
    m_mask,          \* the rectified class mask of the run: rows of codes
    m_per_pixel,     \* self.m_per_pixel (<<>>: no object holds one)
    grid_plane_model,\* self.grid_plane_model
    m_call,          \* arguments and outcome of the last call (None: no call)
    last_fit,        \* plane fitted by the latest call with more than 3
                     \* reference points (None: no such call)
    prev_fit,        \* last_fit as it was before the last call
    \* ---- rectify_image_section, applied to a section of the class mask
    section_row,     \* one row of image_section: a class code per pixel
    section_type,    \* box_type
    rectified_row,   \* the same row of the array returned (<<>>: no call)
    \* ---- the box enlargement of estimate_blocking_area_volume, as a function
    enl_box,         \* the box handed in
    enl_shape,       \* image.shape: <<rows, columns>>
    enl_out,         \* the box after the four assignments (<<>>: not run)
    \* ---- the plane functions of MetricsEstimation, applied as functions
    pl_points,       \* the points handed in
    pl_n,            \* n_cells_side
    pl_model,        \* plane_model handed in
    pl_out,          \* what the function returned (<<>>: not applied)
    \* ---- get_original_image_section
    sec_log,         \* one record per get_original_image_section call made
    \* ---- ApexPipeline object and the run of its generator
    detections_metrics, \* self.detections_metrics
    segmented_image, \* self.segmented_image (None: not set)
    p_pc,            \* where run() stands: "idle", "started", "rectify",
                     \* "classes", "draw", "returned" or "raised"
    p_runs,          \* number of run() calls started on the object
    p_class,         \* k + 1 of the loop over desired_classes
    p_boxes,         \* the boxes of the class the inner loop has not reached
    p_detected,      \* what get_boxes_from_image answers for each class, on
                     \* the rectified mask of the image
    p_ratios,        \* what get_meters_pixel_ratio answers for the image
    p_progress,      \* the percentages yielded by the current run
    p_log,           \* one record per estimate_blocking_area_volume call
    p_drawn,         \* the boxes drawn by the last run that reached the end
    p_segmented,     \* what the segmentation of the image gives: "failed",
                     \* "nothing" (no column or no barrier) or "found"
    \* ---- ApexWorker object
    w_pc,            \* where ApexWorker.run stands: "idle", "iterating",
                     \* "emitting", "done" or "raised"
    w_emitted        \* the signals emitted, log apart

vars == <<scenario, f_in, f_bins, f_out, f_prev, f_n,
          rect_pc, cfg, img, pil_empty_ok, collumn_boxes, barrier_box,
          rectified_image, snip_log, barrier_boxes_in, ratio_call,
          seg_pc, image_detections_mask,
          m_mask, m_per_pixel, grid_plane_model, m_call, last_fit, prev_fit,
          section_row, section_type, rectified_row,
          enl_box, enl_shape, enl_out, pl_points, pl_n, pl_model, pl_out,
          sec_log, detections_metrics, segmented_image, p_pc, p_runs,
          p_class, p_boxes, p_detected, p_ratios, p_progress, p_log, p_drawn,
          p_segmented, w_pc, w_emitted>>

filterVars == <<f_in, f_bins, f_out, f_prev, f_n>>
rectVars == <<rect_pc, cfg, img, pil_empty_ok, collumn_boxes, barrier_box,
              rectified_image, snip_log, barrier_boxes_in, ratio_call>>
segVars == <<seg_pc, image_detections_mask>>
metVars == <<m_mask, m_per_pixel, grid_plane_model, m_call, last_fit, prev_fit>>
resVars == <<section_row, section_type, rectified_row>>
enlVars == <<enl_box, enl_shape, enl_out>>
planeVars == <<pl_points, pl_n, pl_model, pl_out>>
secVars == <<sec_log>>
pipeVars == <<detections_metrics, segmented_image, p_pc, p_runs, p_class,
              p_boxes, p_detected, p_ratios, p_progress, p_log, p_drawn,
              p_segmented>>
workerVars == <<w_pc, w_emitted>>

None == "None"

-----------------------------------------------------------------------------
(* Bounds of the model *)

\* largest x coordinate of a drawn box
MaxX == 3
\* largest y coordinate of a drawn box
MaxY == 3
\* longest list handed to filter_colliding_boxes as a function
MaxBoxes == 3
\* longest column list handed to set_detected_boxes
MaxColumns == 2
\* longest barrier list handed to set_detected_boxes
MaxBarriers == 2
\* most snip_rectify_image calls on one rectifier
MaxSnips == 3

\* largest absolute value of a coordinate or of a plane coefficient handed
\* to the plane functions
MaxCoord == 1

\* longest list of points handed to get_grid_plane_candidate_points
MaxPoints == 3
\* largest n_cells_side handed to get_grid_plane_candidate_points
MaxCells == 2

\* most get_original_image_section calls on one rectifier
MaxSections == 2

\* most run() calls on one ApexPipeline object
MaxRuns == 2
\* most boxes get_boxes_from_image answers for one image, over the classes
MaxDetections == 2

-----------------------------------------------------------------------------
(* Small helpers *)

Min(a, b) == IF a < b THEN a ELSE b
Max(a, b) == IF a > b THEN a ELSE b
Abs(a) == IF a < 0 THEN -a ELSE a

\* all lists over S of length lo..hi
ListsOf(S, lo, hi) == UNION {[1..k -> S] : k \in lo..hi}

\* the element of a one-element set
Only(S) == CHOOSE x \in S : TRUE

RECURSIVE SumUpTo(_, _)
SumUpTo(s, n) == IF n = 0 THEN 0 ELSE s[n] + SumUpTo(s, n - 1)
SumSeq(s) == SumUpTo(s, Len(s))

\* vertical extents boxes are drawn with: touching, overlapping and disjoint
YRanges == {<<0, 1>>, <<1, MaxY>>, <<MaxY - 1, MaxY>>}

\* boxes with x1 < x2 and y1 < y2 inside a MaxX x MaxY image
Boxes == {<<x1, yr[1], x2, yr[2]>> : x1 \in 0..MaxX, x2 \in 0..MaxX, yr \in YRanges}
             \cap {b \in (0..MaxX) \X (0..MaxY) \X (0..MaxX) \X (0..MaxY) :
                     b[1] < b[3] /\ b[2] < b[4]}

-----------------------------------------------------------------------------
(* ImageRectification.filter_colliding_boxes *)

BoxArea(box) == (box[3] - box[1]) * (box[4] - box[2])

IsColliding(box1, box2) ==
    ~(box1[3] < box2[1] \/ box1[1] > box2[3]
        \/ box1[4] < box2[2] \/ box1[2] > box2[4])

\* the inner loop over j for one i: the indices j > i of the boxes colliding
\* with box i, in list order (a j already in added_boxes is appended again)
RECURSIVE CollidingAfter(_, _, _)
CollidingAfter(boxes, i, j) ==
    IF j > Len(boxes) THEN <<>>
    ELSE IF j > i /\ IsColliding(boxes[i], boxes[j])
         THEN <<j>> \o CollidingAfter(boxes, i, j + 1)
         ELSE CollidingAfter(boxes, i, j + 1)

SeqToSet(s) == {s[k] : k \in 1..Len(s)}

\* the outer loop: boxes_bins as lists of indices into boxes
RECURSIVE BoxesBinsFrom(_, _, _)
BoxesBinsFrom(boxes, i, added_boxes) ==
    IF i > Len(boxes) THEN <<>>
    ELSE IF i \in added_boxes THEN BoxesBinsFrom(boxes, i + 1, added_boxes)
    ELSE LET joined == CollidingAfter(boxes, i, 1)
         IN  <<(<<i>> \o joined)>>
               \o BoxesBinsFrom(boxes, i + 1, added_boxes \cup SeqToSet(joined))

BoxesBins(boxes) == BoxesBinsFrom(boxes, 1, {})

\* the box that opened the bin
FirstBoxOfBin(boxes, box_bin) == boxes[box_bin[1]]

\* max(box_bin, key=area): the first box of the bin with the largest area
BiggestBox(boxes, box_bin) ==
    LET k == CHOOSE k \in 1..Len(box_bin) :
                /\ \A m \in 1..Len(box_bin) :
                       BoxArea(boxes[box_bin[m]]) <= BoxArea(boxes[box_bin[k]])
                /\ \A m \in 1..(k - 1) :
                       BoxArea(boxes[box_bin[m]]) < BoxArea(boxes[box_bin[k]])
    IN  boxes[box_bin[k]]

FilterCollidingBoxes(boxes) ==
    LET bins == BoxesBins(boxes)
    IN  [b \in 1..Len(bins) |->
            IF Len(bins[b]) = 1 THEN boxes[bins[b][1]]
            ELSE BiggestBox(boxes, bins[b])]

\* filter_colliding_boxes applied to a fresh list, or to its own last result
ApplyFilter ==
    /\ scenario = "filter"
    /\ f_n < 2
    /\ LET boxes == IF f_n = 0 THEN f_in ELSE f_out
       IN  /\ f_in' = boxes
           /\ f_bins' = BoxesBins(boxes)
           /\ f_out' = FilterCollidingBoxes(boxes)
           /\ f_prev' = IF f_n = 0 THEN None ELSE f_out
    /\ f_n' = f_n + 1
    /\ UNCHANGED <<scenario, workerVars, pipeVars, secVars, planeVars,
                   rectVars, segVars, metVars, resVars, enlVars>>

-----------------------------------------------------------------------------
(* ImageRectification.__init__ *)

\* Lengths are held in decimetres and the ratio in decimetres per pixel, so
\* that int(a / b) of two positive floats is the integer quotient a \div b.
GridWidthPx(c) == c.grid_width \div c.meters_pixel_ratio
CollumnWidthPx(c) == c.collumn_width \div c.meters_pixel_ratio

\* 2.7 m and 1.7 m at 1 m per pixel: quotients with a fractional part above
\* one half
SmallConfig == [grid_width |-> 27, grid_height |-> 30, collumn_width |-> 17,
                meters_pixel_ratio |-> 10]
\* 10 m and 3 m at 0.1 m per pixel: the end-to-end scenario
ExampleConfig == [grid_width |-> 100, grid_height |-> 100, collumn_width |-> 30,
                  meters_pixel_ratio |-> 1]
ExampleImage == <<200, 100>>
ExampleColumns == << <<50, 20, 70, 100>>, <<150, 20, 170, 100>> >>
ExampleBarriers == << <<0, 0, 200, 100>> >>

-----------------------------------------------------------------------------
(* ImageRectification.set_detected_boxes *)

\* the barrier box: the first box of the list with the largest area
RECURSIVE BiggestBarrierFrom(_, _, _)
BiggestBarrierFrom(barrier_boxes, k, best) ==
    IF k > Len(barrier_boxes) THEN best
    ELSE IF BoxArea(barrier_boxes[k]) > BoxArea(best)
         THEN BiggestBarrierFrom(barrier_boxes, k + 1, barrier_boxes[k])
         ELSE BiggestBarrierFrom(barrier_boxes, k + 1, best)

BiggestBarrier(barrier_boxes) ==
    BiggestBarrierFrom(barrier_boxes, 1, barrier_boxes[1])

\* column boxes are drawn in two disjoint vertical bands
ColumnBoxes == {b \in Boxes : <<b[2], b[4]>> \in {<<0, 1>>, <<MaxY - 1, MaxY>>}}

BarrierBoxes == {<<0, 0, MaxX, MaxY>>, <<1, 0, MaxX, MaxY>>,
                 <<0, 0, MaxX - 1, MaxY>>, <<0, 1, MaxX, MaxY>>}

SetDetectedBoxesOn(cols, barriers) ==
    /\ collumn_boxes' = FilterCollidingBoxes(cols)
    /\ barrier_box' = BiggestBarrier(barriers)
    /\ rect_pc' = "set"
    /\ UNCHANGED <<scenario, workerVars, pipeVars, secVars, planeVars,
                   filterVars, segVars, metVars, resVars, enlVars, cfg, img,
                   pil_empty_ok, rectified_image, snip_log, ratio_call>>

\* ApexPipeline.run sets the boxes on a fresh rectifier, before any snip
SetDetectedBoxes ==
    /\ rect_pc = "new"
    /\ snip_log = <<>>
    /\ \/ /\ scenario = "rect"
          /\ \E cols \in ListsOf(ColumnBoxes, 0, MaxColumns),
                barriers \in ListsOf(BarrierBoxes, 1, MaxBarriers) :
                  SetDetectedBoxesOn(cols, barriers)
          /\ UNCHANGED barrier_boxes_in
       \/ /\ scenario = "example"
          /\ SetDetectedBoxesOn(ExampleColumns, ExampleBarriers)
          /\ UNCHANGED barrier_boxes_in
       \/ /\ scenario = "ratio"
          /\ \E cols \in ListsOf(ColumnBoxes, 0, 1),
                barriers \in ListsOf(BarrierBoxes, 1, MaxBarriers) :
                  /\ SetDetectedBoxesOn(cols, barriers)
                  /\ barrier_boxes_in' = barriers
       \/ /\ scenario = "section"
          /\ \E cols \in ListsOf(ColumnBoxes, 0, MaxColumns) :
                  SetDetectedBoxesOn(cols, <<<<0, 0, MaxX, MaxY>>>>)
          /\ UNCHANGED barrier_boxes_in

-----------------------------------------------------------------------------
(* ImageRectification.sort_enhance_detected_boxes *)

\* sorted(pairs, key = x1 of the box).  Python's sort is stable: an element
\* comes after those with a smaller key and those with an equal key that
\* stood before it
RankByX1(s, k) ==
    1 + Cardinality({j \in 1..Len(s) :
                        \/ s[j][1][1] < s[k][1][1]
                        \/ s[j][1][1] = s[k][1][1] /\ j < k})

SortedByX1(pairs) ==
    Only({[p \in 1..Len(s) |-> s[CHOOSE k \in 1..Len(s) : RankByX1(s, k) = p]] :
            s \in {pairs}})

\* the grid boxes created around and between the sorted column boxes cs
GridBoxes(cs, barrier) ==
    LET n == Len(cs)
        lead == IF barrier[1] < cs[1][1]
                THEN << <<barrier[1], cs[1][2], cs[1][1], barrier[4]>> >>
                ELSE <<>>
        mid == [i \in 1..(n - 1) |->
                   <<cs[i][3], cs[i][2], cs[i + 1][1], cs[i + 1][4]>>]
        trail == IF barrier[3] > cs[n][3]
                 THEN << <<cs[n][3], cs[n][2], barrier[3], barrier[4]>> >>
                 ELSE <<>>
    IN  lead \o mid \o trail

Typed(boxes, box_type) == [k \in 1..Len(boxes) |-> <<boxes[k], box_type>>]

\* the (box, type) pairs returned, for a non-empty column list
SortEnhanceDetectedBoxes(cols, barrier) ==
    Only({Only({SortedByX1(Typed(grid_boxes, "grid") \o sorted) :
                  grid_boxes \in {GridBoxes([k \in 1..Len(sorted) |-> sorted[k][1]],
                                            barrier)}}) :
            sorted \in {SortedByX1(Typed(cols, "collumn"))}})

-----------------------------------------------------------------------------
(* ImageRectification.snip_rectify_image and rectify_image_section *)

\* len(range(a, b)) of a slice a:b of an axis of length n, for a, b >= 0
SliceLen(a, b, n) == Max(0, Min(b, n) - Min(a, n))

\* np_max in place of np_min: the lowest of the top edges
MaxY1(pairs) ==
    CHOOSE y \in {pairs[k][1][2] : k \in 1..Len(pairs)} :
        \A k \in 1..Len(pairs) : y >= pairs[k][1][2]

\* np_min of box[1] over the boxes
MinY1(pairs) ==
    CHOOSE y \in {pairs[k][1][2] : k \in 1..Len(pairs)} :
        \A k \in 1..Len(pairs) : y <= pairs[k][1][2]

\* an index slip: the highest point written to box[0] instead of box[1]
ClampBoxWrongIndex(box, highest, lowest) == <<highest, box[2], box[3], lowest>>

\* box[1] = grid_highest_point; box[3] = grid_lowest_point
ClampBox(box, highest, lowest) == <<box[1], highest, box[3], lowest>>

\* shape <<width, height>> of image[box[1]:box[3], box[0]:box[2]]
SectionShape(image, box) ==
    <<SliceLen(box[1], box[3], image[1]), SliceLen(box[2], box[4], image[2])>>

\* new_width of rectify_image_section
TargetWidth(c, box_type) ==
    IF box_type = "grid" THEN GridWidthPx(c) ELSE CollumnWidthPx(c)

\* shape of the section after img.resize((new_width, new_height))
RectifiedSectionShape(c, section, box_type) ==
    <<TargetWidth(c, box_type), section[2]>>

\* whether the section can be resized: an empty source section is left to the
\* imaging library, an empty target is rejected
SectionResizable(c, section, box_type, empty_ok) ==
    /\ TargetWidth(c, box_type) > 0
    /\ section[2] > 0
    /\ section[1] > 0 \/ empty_ok

\* hstack of the image built so far and one more section
HStack(shape, section) == <<shape[1] + section[1], shape[2]>>

\* the empty first column left in the image
KeepFirstColumn(shape) == shape

\* self.rectified_image[:, 1:]
DropFirstColumn(shape) == <<shape[1] - 1, shape[2]>>

\* the loop over the sections from k on: the shape reached and whether it
\* stopped on an exception
RECURSIVE StackSections(_, _, _, _, _, _)
StackSections(c, image, boxes, types, k, shape) ==
    IF k > Len(boxes) THEN [shape |-> shape, raised |-> FALSE]
    ELSE LET section == SectionShape(image, boxes[k])
             rect == RectifiedSectionShape(c, section, types[k])
         IN  IF ~SectionResizable(c, section, types[k], pil_empty_ok')
                  \/ rect[2] # shape[2]
             THEN [shape |-> shape, raised |-> TRUE]
             ELSE StackSections(c, image, boxes, types, k + 1,
                                HStack(shape, rect))

\* the shapes of the images handed in during one run
Images == IF scenario = "example" THEN {ExampleImage}
          ELSE {<<MaxX, MaxY>>, <<MaxX, MaxY + 1>>}

\* the body of snip_rectify_image once the (box, type) pairs are sorted
SnipSections(image, pairs, grid_highest_point, grid_lowest_point) ==
    \E boxes \in {[k \in 1..Len(pairs) |->
                     ClampBox(pairs[k][1], grid_highest_point,
                              grid_lowest_point)]},
       types \in {[k \in 1..Len(pairs) |-> pairs[k][2]]} :
      \E run \in {StackSections(cfg, image, boxes, types, 1,
                      <<1, grid_lowest_point - grid_highest_point>>)} :
        \* the column boxes are the objects of self.collumn_boxes: the
        \* clamping writes through to them
        /\ collumn_boxes' =
               [k \in 1..Len(collumn_boxes) |->
                   ClampBox(collumn_boxes[k], grid_highest_point,
                            grid_lowest_point)]
        /\ rectified_image' = IF run.raised THEN run.shape
                              ELSE DropFirstColumn(run.shape)
        /\ snip_log' = Append(snip_log,
               [raised |-> run.raised,
                error |-> IF run.raised THEN "LibraryError" ELSE "",
                returned |-> pairs,
                boxes |-> boxes,
                types |-> types,
                widths |-> [k \in 1..Len(types) |-> TargetWidth(cfg, types[k])],
                out |-> IF run.raised THEN None
                        ELSE DropFirstColumn(run.shape)])

\* the exception sort_enhance_detected_boxes would stop on, if it were given
\* the empty list
NoColumnsErrorFromSort == "IndexError"

\* raise ValueError("Column boxes must be set before rectifying the image.")
NoColumnsError == "ValueError"

SnipRectifyImageOn(image) ==
    /\ scenario \in {"rect", "example", "ratio", "section"}
    /\ Len(snip_log) < MaxSnips
    /\ img' = image
    /\ IF collumn_boxes = <<>>
       THEN \* raise ValueError before anything is touched
            /\ snip_log' = Append(snip_log,
                              [raised |-> TRUE, error |-> NoColumnsError,
                               returned |-> <<>>, boxes |-> <<>>,
                               types |-> <<>>, widths |-> <<>>, out |-> None])
            /\ UNCHANGED <<collumn_boxes, rectified_image>>
       ELSE \E pairs \in {SortEnhanceDetectedBoxes(collumn_boxes, barrier_box)} :
                SnipSections(image, pairs, MinY1(pairs), image[2])
    /\ UNCHANGED <<scenario, workerVars, pipeVars, secVars, planeVars,
                   filterVars, segVars, metVars, resVars, enlVars, rect_pc,
                   cfg, barrier_box, barrier_boxes_in, ratio_call>>

\* ApexPipeline.run rectifies the image, the class mask and the annotated
\* image, all of one shape; the imaging library behaves the same way each time
SnipRectifyImage ==
    \E image \in Images, empty_ok \in BOOLEAN :
        /\ snip_log # <<>> => image = img /\ empty_ok = pil_empty_ok
        /\ sec_log # <<>> => image = sec_log[1].image
        /\ pil_empty_ok' = empty_ok
        /\ SnipRectifyImageOn(image)

-----------------------------------------------------------------------------
(* ImageRectification.get_meters_pixel_ratio *)

\* the barrier's width taken for its height
GridHeightPxFromWidth(box) == Abs(box[3] - box[1])

\* self.grid_height_px = abs(self.barrier_box[3] - self.barrier_box[1])
GridHeightPx(box) == Abs(box[4] - box[2])

NoRatioCall == [called |-> FALSE, raised |-> FALSE, snips |-> 0,
                grid_height_px |-> 0, x_res |-> 0, y_res |-> <<0, 1>>]

\* get_meters_pixel_ratio, called once set_detected_boxes has stored the
\* barrier box, after any number of snip_rectify_image calls.  y_res is the
\* quotient grid_height_m / grid_height_px, held as <<numerator,
\* denominator>>; a barrier of height 0 makes the division raise.
GetMetersPixelRatio ==
    /\ scenario = "ratio"
    /\ rect_pc = "set"
    /\ \E grid_height_px \in {GridHeightPx(barrier_box)} :
         ratio_call' =
             IF grid_height_px = 0
             THEN [NoRatioCall EXCEPT !.called = TRUE, !.raised = TRUE,
                                      !.snips = Len(snip_log)]
             ELSE [called |-> TRUE, raised |-> FALSE, snips |-> Len(snip_log),
                   grid_height_px |-> grid_height_px,
                   x_res |-> cfg.meters_pixel_ratio,
                   y_res |-> <<cfg.grid_height, grid_height_px>>]
    /\ UNCHANGED <<scenario, workerVars, pipeVars, secVars, planeVars,
                   filterVars, segVars, metVars, resVars, enlVars, rect_pc,
                   cfg, img, pil_empty_ok, collumn_boxes, barrier_box,
                   rectified_image, snip_log, barrier_boxes_in>>

-----------------------------------------------------------------------------
(* ImageSegmentation.segment_classes and draw_detection_in_global_mask *)

\* number of pixels of the segmented image
NPixels == 3

\* results[0].names, in the model's order; code = position (background = 0)
ClassNames == <<"barragem", "coluna", "macrofita", "sedimento", "tronco">>

ClassCode(class_name) ==
    CHOOSE i \in 1..Len(ClassNames) : ClassNames[i] = class_name

\* the loop over the pixels: a pixel already marked sedimento or macrofita is
\* skipped, a pixel of the detection's mask gets its class code
DrawDetectionInGlobalMask(global_mask, mask_region, class_name) ==
    [p \in 1..Len(global_mask) |->
        IF global_mask[p] = ClassCode("sedimento")
             \/ global_mask[p] = ClassCode("macrofita")
        THEN global_mask[p]
        ELSE IF p \in mask_region THEN ClassCode(class_name)
             ELSE global_mask[p]]

\* segment_classes up to its loop: the global mask starts as zeros
SegmentClasses ==
    /\ scenario = "seg"
    /\ seg_pc = "idle"
    /\ seg_pc' = "drawing"
    /\ image_detections_mask' = [p \in 1..NPixels |-> 0]
    /\ UNCHANGED <<scenario, workerVars, pipeVars, secVars, planeVars,
                   filterVars, rectVars, metVars, resVars, enlVars>>

\* one iteration of the loop over the detections; macrofita and sedimento
\* detections with confidence under 0.4 are not stored
StoreDetection ==
    /\ scenario = "seg"
    /\ seg_pc = "drawing"
    /\ \E mask_region \in SUBSET (1..NPixels),
          k \in 1..Len(ClassNames),
          conf_under_04 \in BOOLEAN :
            image_detections_mask' =
                IF ClassNames[k] \in {"macrofita", "sedimento"} /\ conf_under_04
                THEN image_detections_mask
                ELSE DrawDetectionInGlobalMask(image_detections_mask,
                                               mask_region, ClassNames[k])
    /\ UNCHANGED <<scenario, workerVars, pipeVars, secVars, planeVars,
                   seg_pc, filterVars, rectVars, metVars, resVars, enlVars>>

\* segment_classes returns
SegmentClassesReturn ==
    /\ scenario = "seg"
    /\ seg_pc = "drawing"
    /\ seg_pc' = "idle"
    /\ UNCHANGED <<scenario, workerVars, pipeVars, secVars, planeVars,
                   image_detections_mask, filterVars, rectVars, metVars,
                   resVars, enlVars>>

-----------------------------------------------------------------------------
(* ImageRectification.rectify_image_section on a section of the class mask *)

\* largest width of a mask section
MaxSection == 3

\* the codes a pixel of the class mask can hold: 0 for the background
MaskCodes == 0..Len(ClassNames)

\* The coefficients of Image.Resampling.LANCZOS for a row of inSize pixels
\* resized to outSize pixels, as the imaging library holds them for 8-bit
\* images: one list per output pixel, one integer per source pixel, in units
\* of 1 / 4194304 (2^-22).  At these sizes the filter's support covers the
\* whole row.
LanczosCoeffs(inSize, outSize) ==
    IF inSize = 1 THEN [xx \in 1..outSize |-> <<4194304>>]
    ELSE IF outSize = 1
    THEN CASE inSize = 2 -> << <<2097152, 2097152>> >>
           [] inSize = 3 -> << <<1296896, 1600512, 1296896>> >>
           [] inSize = 4 -> << <<923235, 1173917, 1173917, 923235>> >>
           [] inSize = 5 -> << <<712334, 900164, 969309, 900164, 712334>> >>
    ELSE CASE inSize = 3 -> << <<2742406, 1754765, -302866>>,
                               <<-302866, 1754765, 2742406>> >>
           [] inSize = 4 -> << <<1946964, 1946964, 591023, -290647>>,
                               <<-290647, 591023, 1946964, 1946964>> >>
           [] inSize = 5 -> << <<1484509, 1726245, 1068847, 164945, -250242>>,
                               <<-250242, 164945, 1068847, 1726245, 1484509>> >>

\* an 8-bit pixel: values outside 0..255 are clipped
Clip8(v) == Max(0, Min(255, v))

\* img.resize((new_width, new_height), Image.Resampling.LANCZOS) on one row
\* of an 8-bit single-channel image.  The height is kept, so only the
\* horizontal pass runs and the rows are resized one by one; a resize to the
\* same width is a copy.  The sum starts at one half and is shifted right by
\* 22 bits.
ResizeRow(row, new_width) ==
    IF Len(row) = new_width THEN row
    ELSE LET kk == LanczosCoeffs(Len(row), new_width)
         IN  [xx \in 1..new_width |->
                 Clip8((2097152 + SumSeq([x \in 1..Len(row) |->
                                            row[x] * kk[xx][x]]))
                       \div 4194304)]

\* rectify_image_section(image_section, box_type), on one row of a section
\* of the class mask (an array of uint8)
RectifyImageSection ==
    /\ scenario = "resample"
    /\ rectified_row = <<>>
    /\ rectified_row' = ResizeRow(section_row, TargetWidth(cfg, section_type))
    /\ UNCHANGED <<scenario, workerVars, pipeVars, secVars, planeVars,
                   filterVars, rectVars, segVars, metVars, enlVars,
                   section_row, section_type>>

-----------------------------------------------------------------------------
(* MetricsEstimation: the box, the crop and the two point clouds *)

cBarragem == ClassCode("barragem")
cMacrofita == ClassCode("macrofita")
cSedimento == ClassCode("sedimento")

\* a mask of h rows whose columns each hold one code
MaskOfColumns(codes, h) == [r \in 1..h |-> codes]

\* the class masks an instance is used on: rows of codes.  The last one is
\* 50 macrofita pixels and nothing else.
Masks ==
    { MaskOfColumns(<<cBarragem, cMacrofita, cSedimento>>, 3),
      MaskOfColumns(<<cBarragem, cBarragem, cMacrofita>>, 3),
      MaskOfColumns(<<cMacrofita, cSedimento, 0>>, 3),
      <<<<cBarragem, cBarragem, cBarragem, cBarragem, cMacrofita>>>>,
      <<<<cBarragem, cMacrofita, cBarragem>>,
        <<cSedimento, cBarragem, cMacrofita>>>>,
      MaskOfColumns([c \in 1..10 |-> cMacrofita], 5) }

\* ndarray.shape of an array held as rows
Shape(a) == <<Len(a), Len(a[1])>>

\* int(): truncation toward zero of a / b, b > 0
TruncDiv(a, b) == IF a >= 0 THEN a \div b ELSE -((-a) \div b)

\* the four statements without their max(0, ...) and min(image.shape, ...)
EnlargeBoxUnclamped(box, shape) ==
    LET b0 == TruncDiv(10 * box[1] - (box[3] - box[1]), 10)
        b1 == TruncDiv(10 * box[2] - (box[4] - box[2]), 10)
        b2 == TruncDiv(10 * box[3] + (box[3] - b0), 10)
        b3 == TruncDiv(10 * box[4] + (box[4] - b1), 10)
    IN  <<b0, b1, b2, b3>>

\* the box as the first four statements leave it; h = w = 0.1 = 1/10, and
\* box[2], box[3] are computed from the already updated box[0], box[1]
EnlargeBox(box, shape) ==
    LET b0 == Max(0, TruncDiv(10 * box[1] - (box[3] - box[1]), 10))
        b1 == Max(0, TruncDiv(10 * box[2] - (box[4] - box[2]), 10))
        b2 == Min(shape[2], TruncDiv(10 * box[3] + (box[3] - b0), 10))
        b3 == Min(shape[1], TruncDiv(10 * box[4] + (box[4] - b1), 10))
    IN  <<b0, b1, b2, b3>>

\* largest image, in columns and in rows, of the enlargement taken alone
MaxWidth == 12
MaxHeight == 3

\* the boxes inside an image of the given shape
BoxesInside(shape) ==
    {b \in (0..shape[2]) \X (0..shape[1]) \X (0..shape[2]) \X (0..shape[1]) :
        b[1] < b[3] /\ b[2] < b[4]}

\* the first four statements of estimate_blocking_area_volume
Enlarge ==
    /\ scenario = "enlarge"
    /\ enl_out = <<>>
    /\ enl_out' = EnlargeBox(enl_box, enl_shape)
    /\ UNCHANGED <<scenario, workerVars, pipeVars, secVars, planeVars,
                   filterVars, rectVars, segVars, metVars, resVars, enl_box,
                   enl_shape>>

\* a[box[1]:box[3], box[0]:box[2]]
Crop(a, box) ==
    [r \in 1..SliceLen(box[2], box[4], Len(a)) |->
        [c \in 1..SliceLen(box[1], box[3], Len(a[1])) |->
            a[box[2] + r][box[1] + c]]]

\* the depth images the depth pipeline answers with for a crop: the grid
\* lies on the plane z = z0 + sx*col + sy*row and every other pixel stands
\* elev above it
DepthImage(mask_bbox, ramp, elev) ==
    [r \in 1..Len(mask_bbox) |->
        [c \in 1..Len(mask_bbox[1]) |->
            ramp[3] + ramp[1] * (c - 1) + ramp[2] * (r - 1)
              + (IF mask_bbox[r][c] = cBarragem THEN 0 ELSE elev)]]

\* the pixels [col, row] of an h x w array in the order of the two loops
PixelsRowMajor(h, w) == [k \in 1..(h * w) |-> <<(k - 1) % w, (k - 1) \div w>>]

\* the points [col, row, depth] of the pixels holding one code
PointsOfCode(mask, depth_image, code) ==
    Only({ [k \in 1..Len(hit) |->
               <<hit[k][1], hit[k][2], depth_image[hit[k][2] + 1][hit[k][1] + 1]>>] :
           hit \in {SelectSeq(PixelsRowMajor(Len(mask), Len(mask[1])),
                              LAMBDA q : mask[q[2] + 1][q[1] + 1] = code)} })

\* no comparison of the shapes
SplitRaisesNever(mask, depth_image) == FALSE

\* split_class_grid_ptcs raises ValueError
SplitRaises(mask, depth_image) == Shape(mask) # Shape(depth_image)

\* a class cloud that misses the first pixel of the class
SplitClassGridPtcsOneShort(mask, depth_image, class_name) ==
    LET class_id == ClassCode(class_name)
    IN  [grid  |-> IF class_id = cBarragem THEN <<>>
                   ELSE PointsOfCode(mask, depth_image, cBarragem),
         class |-> Tail(PointsOfCode(mask, depth_image, class_id))]

\* the points of grid_ptc and class_ptc; a pixel of the class is never a
\* grid point (if / elif)
SplitClassGridPtcs(mask, depth_image, class_name) ==
    LET class_id == ClassCode(class_name)
    IN  [grid  |-> IF class_id = cBarragem THEN <<>>
                   ELSE PointsOfCode(mask, depth_image, cBarragem),
         class |-> PointsOfCode(mask, depth_image, class_id)]

-----------------------------------------------------------------------------
(* MetricsEstimation: the plane of the grid *)

n_cells_side == 10

Dot(u, v) == u[1] * v[1] + u[2] * v[2] + u[3] * v[3]

SetMin(S) == CHOOSE x \in S : \A y \in S : x <= y
SetMax(S) == CHOOSE x \in S : \A y \in S : x >= y

\* bin_key of points[i]: (bin_x, bin_y) with
\* bin_x = int((p[0] - min_x) / x_step), x_step = (max_x - min_x) / n
BinKey(points, n, i) ==
    LET idx   == 1..Len(points)
        min_x == SetMin({points[j][1] : j \in idx})
        max_x == SetMax({points[j][1] : j \in idx})
        min_y == SetMin({points[j][2] : j \in idx})
        max_y == SetMax({points[j][2] : j \in idx})
    IN  <<(n * (points[i][1] - min_x)) \div (max_x - min_x),
          (n * (points[i][2] - min_y)) \div (max_y - min_y)>>

\* the values of bin_dict in insertion order: for each bin, in the order the
\* bins are first met, the first of its points with the lowest z
GetGridPlaneCandidatePoints(points, n) ==
    LET idx   == 1..Len(points)
        min_x == SetMin({points[i][1] : i \in idx})
        max_x == SetMax({points[i][1] : i \in idx})
        min_y == SetMin({points[i][2] : i \in idx})
        max_y == SetMax({points[i][2] : i \in idx})
        bin(i) == BinKey(points, n, i)
        first == SelectSeq([i \in idx |-> i],
                           LAMBDA i : \A j \in 1..(i - 1) : bin(j) # bin(i))
        lowest(i) ==
            CHOOSE j \in idx :
                /\ bin(j) = bin(i)
                /\ \A k \in idx : bin(k) = bin(i) =>
                       \/ points[j][3] < points[k][3]
                       \/ points[j][3] = points[k][3] /\ j <= k
    IN  IF max_x = min_x \/ max_y = min_y
        THEN points
        ELSE [k \in 1..Len(first) |-> points[lowest(first[k])]]

\* sum of the points of a sequence
SumPoints(points) ==
    <<SumSeq([i \in 1..Len(points) |-> points[i][1]]),
      SumSeq([i \in 1..Len(points) |-> points[i][2]]),
      SumSeq([i \in 1..Len(points) |-> points[i][3]])>>

\* N * (N - 1) * np_cov(points.T): N * sum(p p^T) - (sum p)(sum p)^T
CovMatrix(points) ==
    LET N == Len(points)
        s == SumPoints(points)
    IN  [a \in 1..3 |-> [b \in 1..3 |->
            N * SumSeq([i \in 1..N |-> points[i][a] * points[i][b]])
              - s[a] * s[b]]]

\* the directions with small integer coordinates: the normals of the planes
\* the depth images of the model lie on, and those of the planes around
\* z = 2x + 3y + 5 where that plane is fitted
Normals ==
    LET r == IF scenario = "fit" THEN 3 ELSE 1
    IN  {n \in (-r..r) \X (-r..r) \X (-r..r) : n # <<0, 0, 0>>}

\* d = np_dot(normal, centroid)
PlaneOffsetUnsigned(normal, points) ==
    Dot(normal, SumPoints(points)) \div Len(points)

\* d = -np_dot(normal, centroid)
PlaneOffset(normal, points) ==
    -(Dot(normal, SumPoints(points)) \div Len(points))

\* the planes fit_plane can answer for points that lie on a plane: the
\* normal is an eigenvector of the eigenvalue 0 of the covariance matrix
\* (either sign, and any direction of the eigenspace when the points lie on a
\* line), here a multiple of the unit eigenvector, and d = -normal . centroid
FitPlanes(points) ==
    UNION { { <<n[1], n[2], n[3], PlaneOffset(n, points)>> :
                n \in {m \in Normals : \A a \in 1..3 : Dot(cov[a], m) = 0} } :
            cov \in {CovMatrix(points)} }

\* the planes estimate_original_grid_plane can answer
EstimateOriginalGridPlane(grid_points) ==
    FitPlanes(GetGridPlaneCandidatePoints(grid_points, n_cells_side))

-----------------------------------------------------------------------------
(* MetricsEstimation: distances, smoothing, volume and area *)

\* Coordinates that are no longer integers are kept exact: a cloud is the
\* points pts[i] / den.  A plane model (a, b, c, d) is kept as integers; the
\* results below do not change when the model is scaled.
Cloud(points) == [pts |-> points, den |-> 1]

\* self.grid_plane_model = None
NoPlane == <<>>

Normal(plane_model) == <<plane_model[1], plane_model[2], plane_model[3]>>

\* m * (a*a + b*b + c*c) * den for the point / den
MTimes(point, den, plane_model) ==
    Dot(Normal(plane_model), point) + plane_model[4] * den

\* projected_point * (a*a + b*b + c*c) * den
ProjectedPoint(point, den, plane_model) ==
    LET normal == Normal(plane_model)
        m      == MTimes(point, den, plane_model)
    IN  [k \in 1..3 |-> Dot(normal, normal) * point[k] - m * normal[k]]

SignedDistance(point, den, plane_model) == MTimes(point, den, plane_model)

\* distance * sqrt(a*a + b*b + c*c) * den:
\* norm(projected_point - point) = |m| * norm(normal)
Distance(point, den, plane_model) == Abs(MTimes(point, den, plane_model))

\* the grid points projected on the plane
CreateGridAlignedPtc(grid_points, plane_model) ==
    [pts |-> [i \in 1..Len(grid_points) |->
                 ProjectedPoint(grid_points[i], 1, plane_model)],
     den |-> Dot(Normal(plane_model), Normal(plane_model))]

\* the number of neighbours search_knn_vector_3d is asked for
KnnSize == 100

\* every class point becomes (p + the sum of its neighbours) / (count + 1);
\* the neighbours are searched in class_ptc + grid_ptc, and are all of its
\* points while it has no more than KnnSize of them
SmoothClassFromGridPlane(grid_ptc, class_points) ==
    LET full == [i \in 1..(Len(class_points) + Len(grid_ptc.pts)) |->
                    IF i <= Len(class_points)
                    THEN [k \in 1..3 |-> grid_ptc.den * class_points[i][k]]
                    ELSE grid_ptc.pts[i - Len(class_points)]]
        idx  == Min(KnnSize, Len(full))
    IN  Only({ [pts |-> [i \in 1..Len(class_points) |->
                           [k \in 1..3 |->
                               grid_ptc.den * class_points[i][k] + total[k]]],
                den |-> grid_ptc.den * (idx + 1)] :
               total \in {SumPoints(full)} })

\* len(grid_ptc.points) > 3
EnoughGridPointsLoose(n) == n >= 3
EnoughGridPoints(n) == n > 3

\* the cloud that is measured: aligned and smoothed with a grid, raw without
ClassAlignedPtcAlways(grid_points, class_points, plane_model) ==
    SmoothClassFromGridPlane(
        CreateGridAlignedPtc(grid_points, plane_model), class_points)
ClassAlignedPtc(grid_points, class_points, plane_model) ==
    IF EnoughGridPoints(Len(grid_points))
    THEN SmoothClassFromGridPlane(
             CreateGridAlignedPtc(grid_points, plane_model), class_points)
    ELSE Cloud(class_points)

\* a volume is num / (den * sqrt(nn)); the integer 0 the sum starts from
ZeroVolume == [num |-> 0, den |-> 1, nn |-> 1]

\* z_res = (x_res + y_res) / 2
ZRes(per_pixel) == <<per_pixel.x_res + per_pixel.y_res, 2>>

\* the volume for the sum of the distances of the points
VolumeFrom(total, ptc, plane_model, per_pixel) ==
    LET z_res == ZRes(per_pixel)
    IN  Only({ IF num = 0 THEN ZeroVolume
               ELSE [num |-> num, den |-> z_res[2] * ptc.den,
                     nn |-> Dot(Normal(plane_model), Normal(plane_model))] :
               num \in {per_pixel.x_res * per_pixel.y_res * z_res[1] * total} })

\* the sum over the points of x_res * y_res * z_res * projection_distance
CalculateDetectionVolumeSigned(ptc, plane_model, per_pixel) ==
    VolumeFrom(SumSeq([i \in 1..Len(ptc.pts) |->
                          SignedDistance(ptc.pts[i], ptc.den, plane_model)]),
               ptc, plane_model, per_pixel)
CalculateDetectionVolume(ptc, plane_model, per_pixel) ==
    VolumeFrom(SumSeq([i \in 1..Len(ptc.pts) |->
                          Distance(ptc.pts[i], ptc.den, plane_model)]),
               ptc, plane_model, per_pixel)

\* x_res * x_res for every point: square pixels
CalculateDetectionAreaSquare(ptc, per_pixel) ==
    SumSeq([i \in 1..Len(ptc.pts) |-> per_pixel.x_res * per_pixel.x_res])

\* x_res * y_res for every point
CalculateDetectionArea(ptc, per_pixel) ==
    SumSeq([i \in 1..Len(ptc.pts) |-> per_pixel.x_res * per_pixel.y_res])

-----------------------------------------------------------------------------
(* MetricsEstimation.estimate_blocking_area_volume *)

\* largest height the depth model gives a pixel above the grid
MaxElev == 1

\* the planes z = z0 + sx*col + sy*row of the grid, as <<sx, sy, z0>>
Ramps == {<<0, 0, 1>>, <<1, 1, 0>>}

\* meters per pixel, in whole units of length
\* the dictionary has no key "z_res" until a volume is computed
PerPixels == {[x_res |-> 1, y_res |-> 1], [x_res |-> 2, y_res |-> 4]}

\* m_per_pixel while no MetricsEstimation object holds one
NoPerPixel == <<>>

\* the classes whose detections are measured
MeasuredClasses == {"macrofita", "sedimento"}

\* the boxes get_boxes_from_image hands over: full height, x1 < x2
BoxesIn(mask) ==
    LET w  == Len(mask[1])
        xs == {0, 1, w - 1, w}
    IN  {<<xr[1], 0, xr[2], Len(mask)>> : xr \in {p \in xs \X xs : p[1] < p[2]}}

HasCode(mask, code) ==
    code \in {mask[q[1]][q[2]] : q \in (1..Len(mask)) \X (1..Len(mask[1]))}

\* the state of an instance no call has been made on
NoCall ==
    [called |-> FALSE, raised |-> FALSE, box_in |-> <<>>, box |-> <<>>,
     class_name |-> "", depth_shape |-> <<>>, grid |-> <<>>, class |-> <<>>,
     plane |-> NoPlane, area |-> 0, volume |-> ZeroVolume]

\* the call from the split on, for the crop of the mask and its depth image
EstimateOnCrop(call, mask_bbox, depth_image) ==
    IF SplitRaises(mask_bbox, depth_image)
    THEN /\ m_call' = [call EXCEPT !.raised = TRUE]
         /\ UNCHANGED <<m_per_pixel, grid_plane_model, last_fit>>
    ELSE \E ptcs \in {SplitClassGridPtcs(mask_bbox, depth_image, call.class_name)} :
         \E plane_model \in
              (IF EnoughGridPoints(Len(ptcs.grid))
               THEN EstimateOriginalGridPlane(ptcs.grid)
               ELSE {grid_plane_model}) :
           /\ grid_plane_model' = plane_model
           /\ last_fit' = IF Len(ptcs.grid) > 3 THEN plane_model ELSE last_fit
           /\ IF plane_model = NoPlane
              THEN /\ m_call' = [call EXCEPT !.grid = ptcs.grid,
                                             !.class = ptcs.class]
                   /\ UNCHANGED m_per_pixel
              ELSE \E class_aligned_ptc \in
                        {ClassAlignedPtc(ptcs.grid, ptcs.class, plane_model)} :
                     /\ m_per_pixel' =
                            [x_res |-> m_per_pixel.x_res,
                             y_res |-> m_per_pixel.y_res,
                             z_res |-> ZRes(m_per_pixel)]
                     /\ m_call' =
                            [call EXCEPT
                               !.grid = ptcs.grid,
                               !.class = ptcs.class,
                               !.plane = plane_model,
                               !.volume = CalculateDetectionVolume(
                                   class_aligned_ptc, plane_model, m_per_pixel),
                               !.area = CalculateDetectionArea(
                                   class_aligned_ptc, m_per_pixel)]

\* one call; the depth image has the size of the crop unless extra_row
EstimateBlockingAreaVolume ==
    /\ scenario = "metrics"
    /\ prev_fit' = last_fit
    /\ UNCHANGED <<scenario, workerVars, pipeVars, secVars, planeVars,
                   m_mask, filterVars, rectVars, segVars, resVars, enlVars>>
    /\ \E box_in \in BoxesIn(m_mask), class_name \in MeasuredClasses :
       \E box \in {EnlargeBox(box_in, Shape(m_mask))} :
       \E mask_bbox \in {Crop(m_mask, box)} :
         /\ HasCode(mask_bbox, ClassCode(class_name))
         /\ \E ramp \in Ramps, elev \in 0..MaxElev, extra_row \in BOOLEAN :
              /\ extra_row => elev = 0 /\ ramp = <<0, 0, 1>>
              /\ \E depth \in {DepthImage(mask_bbox, ramp, elev)} :
                 \E depth_image \in
                      {IF extra_row THEN Append(depth, depth[1]) ELSE depth} :
                   EstimateOnCrop(
                       [NoCall EXCEPT !.called = TRUE, !.box_in = box_in,
                                      !.box = box, !.class_name = class_name,
                                      !.depth_shape = Shape(depth_image)],
                       mask_bbox, depth_image)

-----------------------------------------------------------------------------
(* MetricsEstimation.point_plane_distance_and_projection as a function *)

\* the points and the plane coefficients with small integer coordinates
Coords == (-MaxCoord)..MaxCoord

Points3 == Coords \X Coords \X Coords

PlaneModels ==
    {<<n[1], n[2], n[3], d>> : n \in Points3 \ {<<0, 0, 0>>}, d \in Coords}

\* what the function returns, for one point and one plane model; both
\* values are kept scaled as Distance and ProjectedPoint keep them
PointPlaneDistanceAndProjection ==
    /\ scenario = "project"
    /\ pl_out = <<>>
    /\ pl_out' = [distance        |-> Distance(pl_points[1], 1, pl_model),
                  projected_point |->
                      ProjectedPoint(pl_points[1], 1, pl_model)]
    /\ UNCHANGED <<scenario, workerVars, pipeVars, secVars, filterVars,
                   rectVars, segVars, metVars, resVars, enlVars, pl_points,
                   pl_n, pl_model>>

-----------------------------------------------------------------------------
(* MetricsEstimation.get_grid_plane_candidate_points as a function *)

\* the points of a small cloud: x and y on a grid, two depths
CloudPoints == (0..(MaxCoord + 1)) \X (0..(MaxCoord + 1)) \X (0..1)

\* whether x_step == 0 or y_step == 0
ZeroStep(points) ==
    \/ \A i, j \in 1..Len(points) : points[i][1] = points[j][1]
    \/ \A i, j \in 1..Len(points) : points[i][2] = points[j][2]

\* what the function returns, with the bin_key computed for each input
\* point (none when a step is 0 and the points are returned as they are)
GetCandidatePoints ==
    /\ scenario = "bins"
    /\ pl_out = <<>>
    /\ pl_out' =
          [points |-> GetGridPlaneCandidatePoints(pl_points, pl_n),
           keys   |-> IF ZeroStep(pl_points) THEN <<>>
                      ELSE [i \in 1..Len(pl_points) |->
                               BinKey(pl_points, pl_n, i)]]
    /\ UNCHANGED <<scenario, workerVars, pipeVars, secVars, filterVars,
                   rectVars, segVars, metVars, resVars, enlVars, pl_points,
                   pl_n, pl_model>>

-----------------------------------------------------------------------------
(* MetricsEstimation.estimate_original_grid_plane as a function *)

\* x and y of the synthetic points: two neighbours, and one far enough for
\* the two neighbours to share a bin
FitCoords == {0, 1, 2 * n_cells_side}

\* the synthetic points, exactly on z = 2x + 3y + 5
PointsOnKnownPlane ==
    {<<x, y, 2 * x + 3 * y + 5>> : x \in FitCoords, y \in FitCoords}

\* one of the plane models the function can return for the cloud, with
\* likely_grid_plane_points
EstimatePlane ==
    /\ scenario = "fit"
    /\ pl_out = <<>>
    /\ \E plane \in EstimateOriginalGridPlane(pl_points) :
          pl_out' = [plane      |-> plane,
                     candidates |->
                         GetGridPlaneCandidatePoints(pl_points, n_cells_side)]
    /\ UNCHANGED <<scenario, workerVars, pipeVars, secVars, filterVars,
                   rectVars, segVars, metVars, resVars, enlVars, pl_points,
                   pl_n, pl_model>>

-----------------------------------------------------------------------------
(* ImageRectification.get_original_image_section *)

\* the pixels <<x, y>> of image[box[1]:box[3], box[0]:box[2]]
SectionPixels(image, first, last) ==
    {<<x, y>> : x \in (first[1]..(last[3] - 1)) \cap (0..(image[1] - 1)),
                y \in (first[2]..(last[4] - 1)) \cap (0..(image[2] - 1))}

\* one call on an image of the run: the section between the first and the
\* last column box, or the ValueError raised when there is none
GetOriginalImageSection ==
    /\ scenario = "section"
    /\ Len(sec_log) < MaxSections
    /\ \E image \in Images :
          /\ snip_log # <<>> => image = img
          /\ sec_log # <<>> => image = sec_log[1].image
          /\ IF collumn_boxes = <<>>
             THEN sec_log' = Append(sec_log,
                      [image |-> image, snips |-> Len(snip_log),
                       error |-> "ValueError", pixels |-> {},
                       shape |-> <<0, 0>>])
             ELSE \E sorted \in {SortedByX1(Typed(collumn_boxes, "collumn"))} :
                  \E first \in {sorted[1][1]},
                     last \in {sorted[Len(sorted)][1]} :
                    sec_log' = Append(sec_log,
                      [image |-> image, snips |-> Len(snip_log),
                       error |-> "",
                       pixels |-> SectionPixels(image, first, last),
                       shape |-> <<SliceLen(first[1], last[3], image[1]),
                                   SliceLen(first[2], last[4], image[2])>>])
    /\ UNCHANGED <<scenario, workerVars, pipeVars, planeVars, filterVars,
                   rectVars, segVars, metVars, resVars, enlVars>>

-----------------------------------------------------------------------------
(* ApexPipeline.run *)

\* self.desired_classes
desired_classes == <<"macrofita", "sedimento", "tronco">>

\* the threshold of the guard on the area
AreaThreshold == 10

\* the rectified class masks of the images the pipeline is run on
PipelineMasks ==
    { MaskOfColumns(<<cBarragem, cBarragem, cMacrofita, cSedimento>>, 3),
      MaskOfColumns(<<cBarragem, cBarragem, cBarragem, cMacrofita>>, 3) }

\* the boxes get_boxes_from_image can answer for a class: bounding boxes of
\* regions of the class
DetectedBoxes(mask, class_name) ==
    {b \in BoxesIn(mask) : HasCode(Crop(mask, b), ClassCode(class_name))}

\* the box lists of the three classes, in the order of desired_classes
Detections(mask) ==
    {d \in ListsOf(DetectedBoxes(mask, "macrofita"), 0, MaxDetections)
            \X ListsOf(DetectedBoxes(mask, "sedimento"), 0, MaxDetections)
            \X ListsOf(DetectedBoxes(mask, "tronco"), 0, MaxDetections) :
        Len(d[1]) + Len(d[2]) + Len(d[3]) <= MaxDetections}

\* the generator is created and advanced by its caller: any caller, or the
\* for loop of ApexWorker.run
PipelineRunning ==
    \/ scenario = "pipeline"
    \/ scenario = "worker" /\ w_pc = "iterating"

\* the calls of run() the caller makes: ApexWorker.run makes one
RunsAllowed == IF scenario = "worker" THEN 1 ELSE MaxRuns

\* run() up to its first yield; the barrier dimensions are set
PipelineStart ==
    /\ PipelineRunning
    /\ p_pc \in {"idle", "returned", "raised"}
    /\ p_runs < RunsAllowed
    /\ p_runs' = p_runs + 1
    /\ p_progress' = <<0>>
    /\ p_pc' = "started"
    /\ UNCHANGED <<scenario, workerVars, p_segmented, secVars, planeVars,
                   filterVars, rectVars, segVars, metVars, resVars, enlVars,
                   detections_metrics, segmented_image, p_class, p_boxes,
                   p_detected, p_ratios, p_log, p_drawn>>

\* the segmentation: it fails (ValueError), or finds no column or no
\* barrier (yield 30 and return), or finds both (yield 30)
PipelineSegment ==
    /\ PipelineRunning
    /\ p_pc = "started"
    /\ \E outcome \in {p_segmented} :
          /\ p_pc' = CASE outcome = "failed"  -> "raised"
                       [] outcome = "nothing" -> "returned"
                       [] outcome = "found"   -> "rectify"
          /\ p_progress' = IF outcome = "failed" THEN p_progress
                           ELSE Append(p_progress, 30)
    /\ UNCHANGED <<scenario, workerVars, p_segmented, secVars, planeVars,
                   filterVars, rectVars, segVars, metVars, resVars, enlVars,
                   detections_metrics, segmented_image, p_runs, p_class,
                   p_boxes, p_detected, p_ratios, p_log, p_drawn>>

\* a constructor that installs a default plane
DefaultPlaneOfNewEstimation(stored) == <<0, 0, 1, -1>>

\* self.grid_plane_model of the MetricsEstimation object run() creates

PlaneOfNewEstimation(stored) == NoPlane

\* the rectification (yield 60), the new MetricsEstimation object and the
\* boxes of the first class
PipelineRectify ==
    /\ PipelineRunning
    /\ p_pc = "rectify"
    /\ segmented_image' = "image"
    /\ p_progress' = Append(p_progress, 60)
    /\ m_per_pixel' = p_ratios
    /\ grid_plane_model' = PlaneOfNewEstimation(grid_plane_model)
    /\ m_call' = NoCall /\ last_fit' = NoPlane /\ prev_fit' = NoPlane
    /\ p_class' = 1
    /\ p_boxes' = p_detected[1]
    /\ p_pc' = "classes"
    /\ UNCHANGED <<scenario, workerVars, p_segmented, secVars, planeVars,
                   filterVars, rectVars, segVars, resVars, enlVars, m_mask,
                   detections_metrics, p_runs, p_detected, p_ratios, p_log,
                   p_drawn>>

\* the callee worked on a copy of the list
BoxOfCaller(box_in, box) == box_in

\* the list object the caller holds after the call: the callee assigned to
\* its four items
BoxAfterCall(box_in, box) == box

\* a guard that lets the zero result through
DiscardedIfNegative(area) == area < 0

\* if area < 10: continue
Discarded(area) == area < AreaThreshold

\* an assignment in place of the append
ReportOnly(detections, entry) == <<entry>>

\* self.detections_metrics.append({...})
Report(detections, entry) == Append(detections, entry)

\* one turn of the loop over the boxes of a class
PipelineEstimate ==
    /\ PipelineRunning
    /\ p_pc = "classes"
    /\ p_boxes # <<>>
    /\ prev_fit' = last_fit
    /\ p_boxes' = Tail(p_boxes)
    /\ \E box_in \in {Head(p_boxes)}, class_name \in {desired_classes[p_class]} :
       \E box \in {EnlargeBox(box_in, Shape(m_mask))} :
       \E mask_bbox \in {Crop(m_mask, box)} :
       \E depth_image \in {DepthImage(mask_bbox, <<0, 0, 1>>, MaxElev)} :
         /\ EstimateOnCrop(
                [NoCall EXCEPT !.called = TRUE, !.box_in = box_in,
                               !.box = box, !.class_name = class_name,
                               !.depth_shape = Shape(depth_image)],
                mask_bbox, depth_image)
         /\ detections_metrics' =
                IF Discarded(m_call'.area) THEN detections_metrics
                ELSE Report(detections_metrics,
                            [area   |-> m_call'.area,
                             volume |-> m_call'.volume,
                             box    |-> BoxAfterCall(box_in, box),
                             class  |-> class_name])
         /\ p_log' = Append(p_log,
                [run |-> p_runs, class |-> class_name, box_in |-> box_in,
                 box |-> box, had_plane |-> grid_plane_model # NoPlane,
                 grid_n |-> Len(m_call'.grid),
                 no_plane |-> m_call'.plane = NoPlane,
                 area |-> m_call'.area, volume |-> m_call'.volume,
                 box_after |-> BoxAfterCall(box_in, box),
                 reported |-> ~Discarded(m_call'.area)])
    /\ UNCHANGED <<scenario, workerVars, p_segmented, secVars, planeVars,
                   filterVars, rectVars, segVars, resVars, enlVars, m_mask,
                   segmented_image, p_pc, p_runs, p_class, p_detected,
                   p_ratios, p_progress, p_drawn>>

\* the end of the boxes of a class (or a class without boxes): yield pct,
\* then the next class, or the end of the loop over the classes
PipelineNextClass ==
    /\ PipelineRunning
    /\ p_pc = "classes"
    /\ p_boxes = <<>>
    /\ p_progress' = Append(p_progress, 60 + p_class * 10)
    /\ IF p_class < Len(desired_classes)
       THEN /\ p_class' = p_class + 1
            /\ p_boxes' = p_detected[p_class + 1]
            /\ p_pc' = "classes"
       ELSE /\ p_pc' = "draw"
            /\ UNCHANGED <<p_class, p_boxes>>
    /\ UNCHANGED <<scenario, workerVars, p_segmented, secVars, planeVars,
                   filterVars, rectVars, segVars, metVars, resVars, enlVars,
                   detections_metrics, segmented_image, p_runs, p_detected,
                   p_ratios, p_log, p_drawn>>

\* yield pct once more, the drawing of every entry of detections_metrics,
\* yield 100; the MetricsEstimation object is local to run() and is
\* released when the generator ends
PipelineDraw ==
    /\ PipelineRunning
    /\ p_pc = "draw"
    /\ p_progress' = p_progress \o <<60 + p_class * 10, 100>>
    /\ p_drawn' = [d \in 1..Len(detections_metrics) |->
                      detections_metrics[d].box]
    /\ p_pc' = "returned"
    /\ m_per_pixel' = NoPerPixel /\ grid_plane_model' = NoPlane
    /\ m_call' = NoCall /\ last_fit' = NoPlane /\ prev_fit' = NoPlane
    /\ UNCHANGED <<scenario, workerVars, p_segmented, secVars, planeVars,
                   filterVars, rectVars, segVars, resVars, enlVars, m_mask,
                   detections_metrics, segmented_image, p_runs, p_class,
                   p_boxes, p_detected, p_ratios, p_log>>

-----------------------------------------------------------------------------
(* ApexWorker.run *)

\* the slot up to the for loop over the generator
WorkerStart ==
    /\ scenario = "worker"
    /\ w_pc = "idle"
    /\ w_pc' = "iterating"
    /\ UNCHANGED <<scenario, filterVars, rectVars, segVars, metVars, resVars,
                   enlVars, planeVars, secVars, pipeVars, w_emitted>>

\* an exception of the generator leaves the for loop and the slot
WorkerRaise ==
    /\ scenario = "worker"
    /\ w_pc = "iterating"
    /\ p_pc = "raised"
    /\ w_pc' = "raised"
    /\ UNCHANGED <<scenario, filterVars, rectVars, segVars, metVars, resVars,
                   enlVars, planeVars, secVars, pipeVars, w_emitted>>

\* after the loop: get_segmented_image() is Image.fromarray of
\* self.segmented_image, which raises when that is still None; otherwise
\* set_segmented_image is emitted
WorkerGetSegmentedImage ==
    /\ scenario = "worker"
    /\ w_pc = "iterating"
    /\ p_pc = "returned"
    /\ IF segmented_image = None
       THEN w_pc' = "raised" /\ UNCHANGED w_emitted
       ELSE /\ w_pc' = "emitting"
            /\ w_emitted' = Append(w_emitted, "set_segmented_image")
    /\ UNCHANGED <<scenario, filterVars, rectVars, segVars, metVars, resVars,
                   enlVars, planeVars, secVars, pipeVars>>

\* set_metrics and finished
WorkerFinish ==
    /\ scenario = "worker"
    /\ w_pc = "emitting"
    /\ w_emitted' = w_emitted \o <<"set_metrics", "finished">>
    /\ w_pc' = "done"
    /\ UNCHANGED <<scenario, filterVars, rectVars, segVars, metVars, resVars,
                   enlVars, planeVars, secVars, pipeVars>>

-----------------------------------------------------------------------------
(* Specifications *)

IdleFilter ==
    /\ f_in = <<>> /\ f_bins = <<>> /\ f_out = <<>> /\ f_prev = None /\ f_n = 0

IdleRect ==
    /\ rect_pc = "new" /\ cfg = SmallConfig /\ img = None
    /\ pil_empty_ok = FALSE
    /\ collumn_boxes = <<>> /\ barrier_box = None /\ rectified_image = None
    /\ snip_log = <<>>
    /\ barrier_boxes_in = <<>> /\ ratio_call = NoRatioCall

IdleSeg == seg_pc = "idle" /\ image_detections_mask = <<>>

IdleMetrics ==
    /\ m_mask = <<>> /\ m_per_pixel = NoPerPixel /\ grid_plane_model = NoPlane
    /\ m_call = NoCall /\ last_fit = NoPlane /\ prev_fit = NoPlane

IdleResample ==
    section_row = <<>> /\ section_type = None /\ rectified_row = <<>>

IdleEnlarge == enl_box = <<>> /\ enl_shape = <<>> /\ enl_out = <<>>

IdlePlane ==
    pl_points = <<>> /\ pl_n = 0 /\ pl_model = <<>> /\ pl_out = <<>>

IdleSection == sec_log = <<>>

IdlePipeline ==
    /\ detections_metrics = <<>> /\ segmented_image = None
    /\ p_pc = "idle" /\ p_runs = 0 /\ p_class = 0 /\ p_boxes = <<>>
    /\ p_detected = <<>> /\ p_ratios = None
    /\ p_progress = <<>> /\ p_log = <<>> /\ p_drawn = <<>>
    /\ p_segmented = None

IdleWorker == w_pc = "idle" /\ w_emitted = <<>>

\* filter_colliding_boxes as a function of any short list of boxes
InitFilter ==
    /\ scenario = "filter"
    /\ f_in \in ListsOf(Boxes, 0, MaxBoxes)
    /\ f_bins = <<>> /\ f_out = <<>> /\ f_prev = None /\ f_n = 0
    /\ IdleRect /\ IdleSeg /\ IdleMetrics /\ IdleResample /\ IdleEnlarge
    /\ IdlePlane
    /\ IdleSection
    /\ IdlePipeline
    /\ IdleWorker

NextFilter == ApplyFilter

SpecFilter == InitFilter /\ [][NextFilter]_vars

\* one ImageRectification object, as ApexPipeline.run uses it
InitRect ==
    /\ IdleFilter /\ IdleSeg /\ IdleMetrics /\ IdleResample /\ IdleEnlarge
    /\ IdlePlane
    /\ rect_pc = "new"
    /\ \/ scenario = "rect" /\ cfg = SmallConfig
       \/ scenario = "example" /\ cfg = ExampleConfig
    /\ img = None
    /\ pil_empty_ok = FALSE
    /\ collumn_boxes = <<>> /\ barrier_box = None /\ rectified_image = None
    /\ snip_log = <<>>
    /\ barrier_boxes_in = <<>> /\ ratio_call = NoRatioCall
    /\ IdleSection
    /\ IdlePipeline
    /\ IdleWorker

NextRect == SetDetectedBoxes \/ SnipRectifyImage

SpecRect == InitRect /\ [][NextRect]_vars

\* one ImageRectification object whose ratios are read
InitRatio ==
    /\ scenario = "ratio"
    /\ IdleFilter /\ IdleRect /\ IdleSeg /\ IdleMetrics
    /\ IdleResample /\ IdleEnlarge /\ IdlePlane
    /\ IdleSection
    /\ IdlePipeline
    /\ IdleWorker

NextRatio == SetDetectedBoxes \/ SnipRectifyImage \/ GetMetersPixelRatio

SpecRatio == InitRatio /\ [][NextRatio]_vars

\* one ImageSegmentation object
InitSeg ==
    /\ scenario = "seg"
    /\ IdleFilter /\ IdleRect /\ IdleSeg /\ IdleMetrics
    /\ IdleResample /\ IdleEnlarge /\ IdlePlane
    /\ IdleSection
    /\ IdlePipeline
    /\ IdleWorker

NextSeg == SegmentClasses \/ StoreDetection \/ SegmentClassesReturn

SpecSeg == InitSeg /\ [][NextSeg]_vars

\* one MetricsEstimation object, on one mask
InitMetrics ==
    /\ scenario = "metrics"
    /\ IdleFilter /\ IdleRect /\ IdleSeg /\ IdleResample /\ IdleEnlarge
    /\ IdlePlane
    /\ m_mask \in Masks
    /\ m_per_pixel \in PerPixels
    /\ grid_plane_model = NoPlane
    /\ m_call = NoCall /\ last_fit = NoPlane /\ prev_fit = NoPlane
    /\ IdleSection
    /\ IdlePipeline
    /\ IdleWorker

NextMetrics == EstimateBlockingAreaVolume

SpecMetrics == InitMetrics /\ [][NextMetrics]_vars

\* rectify_image_section as a function of one row of a mask section and of
\* the box type
InitResample ==
    /\ scenario = "resample"
    /\ IdleFilter /\ IdleRect /\ IdleSeg /\ IdleMetrics /\ IdleEnlarge
    /\ IdlePlane
    /\ section_row \in ListsOf(MaskCodes, 1, MaxSection)
    /\ section_type \in {"grid", "collumn"}
    /\ rectified_row = <<>>
    /\ IdleSection
    /\ IdlePipeline
    /\ IdleWorker

NextResample == RectifyImageSection

SpecResample == InitResample /\ [][NextResample]_vars

\* the box enlargement as a function of a box inside an image
InitEnlarge ==
    /\ scenario = "enlarge"
    /\ IdleFilter /\ IdleRect /\ IdleSeg /\ IdleMetrics /\ IdleResample
    /\ IdlePlane
    /\ enl_shape \in {<<MaxHeight, MaxWidth>>, <<MaxHeight, MaxWidth - 1>>}
    /\ enl_box \in BoxesInside(enl_shape)
    /\ enl_out = <<>>
    /\ IdleSection
    /\ IdlePipeline
    /\ IdleWorker

NextEnlarge == Enlarge

SpecEnlarge == InitEnlarge /\ [][NextEnlarge]_vars

\* point_plane_distance_and_projection as a function of a point and of a
\* plane with a non-zero normal
InitProject ==
    /\ scenario = "project"
    /\ IdleFilter /\ IdleRect /\ IdleSeg /\ IdleMetrics
    /\ IdleResample /\ IdleEnlarge
    /\ pl_points \in {<<p>> : p \in Points3}
    /\ pl_n = 0
    /\ pl_model \in PlaneModels
    /\ pl_out = <<>>
    /\ IdleSection
    /\ IdlePipeline
    /\ IdleWorker

NextProject == PointPlaneDistanceAndProjection

SpecProject == InitProject /\ [][NextProject]_vars

\* get_grid_plane_candidate_points as a function of a small cloud and of
\* n_cells_side
InitBins ==
    /\ scenario = "bins"
    /\ IdleFilter /\ IdleRect /\ IdleSeg /\ IdleMetrics
    /\ IdleResample /\ IdleEnlarge
    /\ pl_points \in ListsOf(CloudPoints, 1, MaxPoints)
    /\ pl_n \in 1..MaxCells
    /\ pl_model = <<>>
    /\ pl_out = <<>>
    /\ IdleSection
    /\ IdlePipeline
    /\ IdleWorker

NextBins == GetCandidatePoints

SpecBins == InitBins /\ [][NextBins]_vars

\* estimate_original_grid_plane as a function of a cloud of at least two
\* points (np_cov needs two observations) on the plane z = 2x + 3y + 5
InitFit ==
    /\ scenario = "fit"
    /\ IdleFilter /\ IdleRect /\ IdleSeg /\ IdleMetrics
    /\ IdleResample /\ IdleEnlarge
    /\ pl_points \in ListsOf(PointsOnKnownPlane, 2, MaxPoints)
    /\ pl_n = n_cells_side
    /\ pl_model = <<>>
    /\ pl_out = <<>>
    /\ IdleSection
    /\ IdlePipeline
    /\ IdleWorker

NextFit == EstimatePlane

SpecFit == InitFit /\ [][NextFit]_vars

\* one ImageRectification object whose original section is read between the
\* rectifications
InitSection ==
    /\ scenario = "section"
    /\ IdleFilter /\ IdleRect /\ IdleSeg /\ IdleMetrics
    /\ IdleResample /\ IdleEnlarge /\ IdlePlane
    /\ sec_log = <<>>
    /\ IdlePipeline
    /\ IdleWorker

NextSection ==
    SetDetectedBoxes \/ SnipRectifyImage \/ GetOriginalImageSection

SpecSection == InitSection /\ [][NextSection]_vars

\* one ApexPipeline object, run up to MaxRuns times on one image
InitPipeline ==
    /\ scenario = "pipeline"
    /\ IdleFilter /\ IdleRect /\ IdleSeg /\ IdleResample /\ IdleEnlarge
    /\ IdlePlane /\ IdleSection
    /\ m_mask \in PipelineMasks
    /\ m_per_pixel = NoPerPixel /\ grid_plane_model = NoPlane
    /\ m_call = NoCall /\ last_fit = NoPlane /\ prev_fit = NoPlane
    /\ detections_metrics = <<>> /\ segmented_image = None
    /\ p_pc = "idle" /\ p_runs = 0 /\ p_class = 0 /\ p_boxes = <<>>
    /\ p_segmented \in {"failed", "nothing", "found"}
    /\ p_detected \in Detections(m_mask)
    /\ p_segmented # "found" => p_detected = <<<<>>, <<>>, <<>>>>
    /\ p_ratios \in PerPixels
    /\ p_progress = <<>> /\ p_log = <<>> /\ p_drawn = <<>>
    /\ IdleWorker

NextPipeline ==
    \/ PipelineStart
    \/ PipelineSegment
    \/ PipelineRectify
    \/ PipelineEstimate
    \/ PipelineNextClass
    \/ PipelineDraw

SpecPipeline == InitPipeline /\ [][NextPipeline]_vars

\* one ApexWorker object with its own ApexPipeline; its slot runs in a
\* thread of its own and every step that can be taken is taken
InitWorker ==
    /\ scenario = "worker"
    /\ IdleFilter /\ IdleRect /\ IdleSeg /\ IdleResample /\ IdleEnlarge
    /\ IdlePlane /\ IdleSection
    /\ m_mask \in PipelineMasks
    /\ m_per_pixel = NoPerPixel /\ grid_plane_model = NoPlane
    /\ m_call = NoCall /\ last_fit = NoPlane /\ prev_fit = NoPlane
    /\ detections_metrics = <<>> /\ segmented_image = None
    /\ p_pc = "idle" /\ p_runs = 0 /\ p_class = 0 /\ p_boxes = <<>>
    /\ p_segmented \in {"failed", "nothing", "found"}
    /\ p_detected \in Detections(m_mask)
    /\ p_segmented # "found" => p_detected = <<<<>>, <<>>, <<>>>>
    /\ p_ratios \in PerPixels
    /\ p_progress = <<>> /\ p_log = <<>> /\ p_drawn = <<>>
    /\ w_pc = "idle" /\ w_emitted = <<>>

NextWorker ==
    \/ WorkerStart
    \/ PipelineStart
    \/ PipelineSegment
    \/ PipelineRectify
    \/ PipelineEstimate
    \/ PipelineNextClass
    \/ PipelineDraw
    \/ WorkerRaise
    \/ WorkerGetSegmentedImage
    \/ WorkerFinish

\* the position of the slot and of the generator: every step moves it
workerPosition == <<w_pc, p_pc, p_class, p_boxes>>

\* The slot is sequential code: a statement that can run does run.  The
\* call of estimate_blocking_area_volume always comes back, so that step is
\* told here by what it does to the loop, the rest being PipelineEstimate's.
EstimateComesBack ==
    /\ PipelineRunning
    /\ p_pc = "classes"
    /\ p_boxes # <<>>
    /\ p_boxes' = Tail(p_boxes)

WorkerRuns ==
    \/ WorkerStart
    \/ PipelineStart
    \/ PipelineSegment
    \/ PipelineRectify
    \/ PipelineNextClass
    \/ PipelineDraw
    \/ WorkerRaise
    \/ WorkerGetSegmentedImage
    \/ WorkerFinish

SpecWorker ==
    /\ InitWorker /\ [][NextWorker]_vars
    /\ WF_workerPosition(WorkerRuns) /\ WF_p_boxes(EstimateComesBack)

-----------------------------------------------------------------------------
(* Properties of filter_colliding_boxes *)

\* C1: applying filter_colliding_boxes to its own result returns that result
\* unchanged.
C1_FilterIdempotent == f_n = 2 => f_out = f_prev

\* C9: the returned list is non-colliding: no two entries at distinct
\* positions overlap (touching edges count as overlapping).
C9_ResultNonColliding ==
    f_n >= 1 =>
        \A i, j \in 1..Len(f_out) : i # j => ~IsColliding(f_out[i], f_out[j])

\* the bins in which input position j was placed
BinsHolding(j) ==
    {b \in 1..Len(f_bins) : \E m \in 1..Len(f_bins[b]) : f_bins[b][m] = j}

\* C10: every input box is placed in exactly one bin, once, and a box that
\* overlaps a box already placed in a bin joins a bin instead of opening one
\* (whether or not the box it overlaps is the first of its bin).
C10_BinsPartitionByAnyOverlap ==
    f_n >= 1 =>
        /\ \A j \in 1..Len(f_in) :
             /\ Cardinality(BinsHolding(j)) = 1
             /\ \A b \in BinsHolding(j) :
                  Cardinality({m \in 1..Len(f_bins[b]) : f_bins[b][m] = j}) = 1
        /\ \A j \in 1..Len(f_in) :
             (\E i \in 1..(j - 1) : IsColliding(f_in[i], f_in[j]))
                 => \A b \in 1..Len(f_bins) : f_bins[b][1] # j

\* C11: one box is returned per bin, in the order the bins were opened; it
\* is a box of its bin and no box of the bin has a larger area; a list in
\* which no two boxes overlap (or touch) is returned unchanged.
C11_BiggestOfEachBin ==
    f_n >= 1 =>
        /\ Len(f_out) = Len(f_bins)
        /\ \A b \in 1..Len(f_bins) :
             /\ \E m \in 1..Len(f_bins[b]) : f_out[b] = f_in[f_bins[b][m]]
             /\ \A m \in 1..Len(f_bins[b]) :
                  BoxArea(f_in[f_bins[b][m]]) <= BoxArea(f_out[b])
        /\ (\A i, j \in 1..Len(f_in) : i # j => ~IsColliding(f_in[i], f_in[j]))
               => f_out = f_in

\* a bin of several boxes whose biggest box is not the one that opened it
C11_Witness ==
    /\ f_n >= 1
    /\ \E b \in 1..Len(f_bins) :
         /\ Len(f_bins[b]) > 1
         /\ BoxArea(f_in[f_bins[b][1]]) < BoxArea(f_out[b])

-----------------------------------------------------------------------------
(* Properties of the rectifier *)

\* the calls in which sort_enhance_detected_boxes ran
SortedCalls == {k \in 1..Len(snip_log) : snip_log[k].returned # <<>>}

\* the calls that returned an image
ReturnedCalls == {k \in 1..Len(snip_log) : ~snip_log[k].raised}

\* C2: the sequence returned by sort_enhance_detected_boxes covers the
\* structure's width with no gaps and no overlaps: each box ends where the
\* next begins, every box has x1 < x2, the first box starts at or before
\* structure.x1 and the last ends at or after structure.x2.
C2_SequenceCoversStructure ==
    \A c \in SortedCalls :
        LET pairs == snip_log[c].returned
            n == Len(pairs)
        IN  /\ \A k \in 1..(n - 1) : pairs[k][1][3] = pairs[k + 1][1][1]
            /\ \A k \in 1..n : pairs[k][1][1] < pairs[k][1][3]
            /\ pairs[1][1][1] <= barrier_box[1]
            /\ pairs[n][1][3] >= barrier_box[3]

CountType(types, box_type) ==
    Cardinality({k \in 1..Len(types) : types[k] = box_type})

\* C3: a returned image is as wide as (grid cells x grid_width_px) + (columns
\* x collumn_width_px) and as high as the image height minus the smallest y1
\* of the sequence, every section having that height; in the end-to-end
\* scenario (two columns, 10 m and 3 m at 0.1 m per pixel, 200 x 100) it is
\* 360 x 80.
C3_RectifiedShape ==
    \A c \in ReturnedCalls :
        LET e == snip_log[c]
            height == img[2] - MinY1(e.returned)
        IN  /\ e.out[1] = CountType(e.types, "grid") * GridWidthPx(cfg)
                          + CountType(e.types, "collumn") * CollumnWidthPx(cfg)
            /\ e.out[2] = height
            /\ \A k \in 1..Len(e.boxes) : SectionShape(img, e.boxes[k])[2] = height
            /\ scenario = "example" => e.out = <<360, 80>>

C3_Witness ==
    /\ scenario = "example"
    /\ \E c \in ReturnedCalls :
         /\ CountType(snip_log[c].types, "grid") = 3
         /\ CountType(snip_log[c].types, "collumn") = 2

\* C4: after one set_detected_boxes, the snip_rectify_image calls on the
\* image, the class mask and the annotated image (all of one shape) use the
\* same section boundaries, kinds and target widths, and return images of one
\* width and height.
C4_SameSectionsEveryCall ==
    \A c, d \in SortedCalls :
        /\ snip_log[c].boxes = snip_log[d].boxes
        /\ snip_log[c].types = snip_log[d].types
        /\ snip_log[c].widths = snip_log[d].widths
        /\ (c \in ReturnedCalls /\ d \in ReturnedCalls)
               => snip_log[c].out = snip_log[d].out

C4_Witness ==
    /\ Len(snip_log) = 3
    /\ ReturnedCalls = {1, 2, 3}
    /\ Len(snip_log[1].boxes) >= 3

\* C12: in the sequence returned by sort_enhance_detected_boxes the kinds
\* alternate: no two consecutive boxes are both column boxes or both grid
\* boxes.
C12_KindsAlternate ==
    \A c \in SortedCalls :
        \A k \in 1..(Len(snip_log[c].returned) - 1) :
            snip_log[c].returned[k][2] # snip_log[c].returned[k + 1][2]

\* whether n is an integer nearest to the quotient a / b, for b > 0
IsNearestInteger(n, a, b) == 2 * Abs(a - n * b) <= b

\* C13: the width every section is resized to is the quotient of its width in
\* metres (grid_width for a grid section, collumn_width for a column section)
\* by the metres-per-pixel ratio, rounded to the nearest integer
C13_TargetWidthRounded ==
    \A c \in 1..Len(snip_log) :
        \A k \in 1..Len(snip_log[c].widths) :
            IsNearestInteger(snip_log[c].widths[k],
                             IF snip_log[c].types[k] = "grid"
                             THEN cfg.grid_width ELSE cfg.collumn_width,
                             cfg.meters_pixel_ratio)

\* C14: a section of the class mask is resampled with nearest-neighbour
\* interpolation, so every value of the rectified section is a class code
\* that occurs in the source section
C14_MaskCodesPreserved ==
    rectified_row # <<>> =>
        \A k \in 1..Len(rectified_row) :
            rectified_row[k] \in SeqToSet(section_row)

\* the positions of the list whose box has the largest area, no box before
\* it having as large an area
FirstLargest(boxes) ==
    {b \in 1..Len(boxes) :
        /\ \A j \in 1..Len(boxes) : BoxArea(boxes[j]) <= BoxArea(boxes[b])
        /\ \A j \in 1..(b - 1) : BoxArea(boxes[j]) < BoxArea(boxes[b])}

\* C17: get_meters_pixel_ratio returns the input ratio as x_res and
\* grid_height_m / |y2 - y1| as y_res, for the barrier box of largest area
\* (the first one on ties) as it was handed to set_detected_boxes, whatever
\* the number of snip_rectify_image calls made before
C17_RatiosFromOriginalBarrier ==
    ratio_call.called =>
        /\ ~ratio_call.raised
        /\ ratio_call.x_res = cfg.meters_pixel_ratio
        /\ FirstLargest(barrier_boxes_in) # {}
        /\ \A b \in FirstLargest(barrier_boxes_in) :
             ratio_call.y_res[1]
                   * Abs(barrier_boxes_in[b][4] - barrier_boxes_in[b][2])
                 = cfg.grid_height * ratio_call.y_res[2]

\* the ratios read after two rectifications, the largest area being shared by
\* two barrier boxes of different heights
C17_Witness ==
    /\ ratio_call.called
    /\ ratio_call.snips >= 2
    /\ ~snip_log[1].raised
    /\ Len(barrier_boxes_in) >= 2
    /\ BoxArea(barrier_boxes_in[1]) = BoxArea(barrier_boxes_in[2])
    /\ GridHeightPx(barrier_boxes_in[1]) # GridHeightPx(barrier_boxes_in[2])
    /\ FirstLargest(barrier_boxes_in) = {1}

\* C19: a snip_rectify_image call made while no column boxes are stored
\* (set_detected_boxes never called, or called with an empty column list)
\* raises ValueError and leaves the stored rectified image and boxes as they
\* were
C19_NoColumnsRaises ==
    [][(Len(snip_log') = Len(snip_log) + 1 /\ collumn_boxes = <<>>) =>
          /\ snip_log'[Len(snip_log')].raised
          /\ snip_log'[Len(snip_log')].error = "ValueError"
          /\ rectified_image' = rectified_image
          /\ collumn_boxes' = collumn_boxes
          /\ barrier_box' = barrier_box]_snip_log

\* a call refused after set_detected_boxes was given no column
C19_Witness ==
    /\ rect_pc = "set"
    /\ collumn_boxes = <<>>
    /\ snip_log # <<>>
    /\ snip_log[Len(snip_log)].error = "ValueError"
    /\ rectified_image = None

-----------------------------------------------------------------------------
(* Properties of the box enlargement *)

\* whether one of the max(0, ...) and min(image.shape, ...) changed a value
ClampingApplied == EnlargeBoxUnclamped(enl_box, enl_shape) # enl_out

\* C15: when no clamping applies the box is enlarged symmetrically: x1 moves
\* left by as much as x2 moves right, and y1 moves up by as much as y2 moves
\* down
C15_SymmetricEnlargement ==
    (enl_out # <<>> /\ ~ClampingApplied) =>
        /\ enl_box[1] - enl_out[1] = enl_out[3] - enl_box[3]
        /\ enl_box[2] - enl_out[2] = enl_out[4] - enl_box[4]

\* C16: for a box inside the image, the enlarged box contains the box and
\* stays inside the image: 0 <= x1' <= x1, x2 <= x2' <= width,
\* 0 <= y1' <= y1, y2 <= y2' <= height
C16_EnlargedContainsOriginal ==
    enl_out # <<>> =>
        /\ 0 <= enl_out[1] /\ enl_out[1] <= enl_box[1]
        /\ enl_box[3] <= enl_out[3] /\ enl_out[3] <= enl_shape[2]
        /\ 0 <= enl_out[2] /\ enl_out[2] <= enl_box[2]
        /\ enl_box[4] <= enl_out[4] /\ enl_out[4] <= enl_shape[1]

\* a box that grew on one side and was held at the image border on another
C16_Witness ==
    /\ enl_out # <<>>
    /\ ClampingApplied
    /\ enl_out[1] < enl_box[1] \/ enl_out[3] > enl_box[3]

-----------------------------------------------------------------------------
(* Properties of the class mask *)

\* the codes of the classes ApexPipeline measures
TargetCodes ==
    {ClassCode("macrofita"), ClassCode("sedimento"), ClassCode("tronco")}

\* C8: a pixel holding the code of a target obstruction class (macrofita,
\* sedimento or tronco) is never overwritten with the code of barragem or of
\* coluna.
C8_TargetCodeNeverLowered ==
    [][\A p \in 1..Len(image_detections_mask) :
          (seg_pc = "drawing" /\ image_detections_mask[p] \in TargetCodes)
              => image_detections_mask'[p]
                     \notin {ClassCode("barragem"), ClassCode("coluna")}]_vars

-----------------------------------------------------------------------------
(* Properties of estimate_blocking_area_volume *)

\* the last call went through the split
Measured == m_call.called /\ ~m_call.raised

\* area and volume of a cloud measured against a plane
MetricsOf(ptc, plane_model) ==
    <<CalculateDetectionArea(ptc, m_per_pixel),
      CalculateDetectionVolume(ptc, plane_model, m_per_pixel)>>

\* C5: a detection whose reference cloud has more than 3 points is measured
\* against a plane fitted from its own reference cloud, after alignment and
\* smoothing; a detection whose reference cloud has 3 or fewer points is
\* measured, raw, against the plane fitted by the most recent earlier call
\* that had more than 3 reference points.
C5_StickyPlane ==
    Measured =>
      /\ Len(m_call.grid) > 3 =>
           /\ m_call.plane \in EstimateOriginalGridPlane(m_call.grid)
           /\ grid_plane_model = m_call.plane
           /\ <<m_call.area, m_call.volume>> =
                  MetricsOf(SmoothClassFromGridPlane(
                                CreateGridAlignedPtc(m_call.grid, m_call.plane),
                                m_call.class),
                            m_call.plane)
      /\ (Len(m_call.grid) <= 3 /\ prev_fit # NoPlane) =>
           /\ m_call.plane = prev_fit
           /\ grid_plane_model = prev_fit
           /\ <<m_call.area, m_call.volume>> =
                  MetricsOf(Cloud(m_call.class), prev_fit)

\* a detection with too few reference points measured, with a volume, on the
\* plane of an earlier call
C5_Witness ==
    /\ Measured
    /\ Len(m_call.grid) <= 3
    /\ prev_fit # NoPlane
    /\ m_call.plane = prev_fit
    /\ m_call.volume.num > 0

\* pixels of the call's crop that hold the code of the grid
ReferencePixels ==
    LET mask_bbox == Crop(m_mask, m_call.box)
    IN  Cardinality({q \in (1..Len(mask_bbox)) \X (1..Len(mask_bbox[1])) :
                        mask_bbox[q[1]][q[2]] = cBarragem})

\* C6: with 3 or fewer reference points and no plane fitted by an earlier
\* call, the call returns exactly (0, 0), does not raise, and leaves the
\* stored plane unset.
C6_NoPlaneNoMetrics ==
    ( /\ m_call.called
      /\ m_call.depth_shape = Shape(Crop(m_mask, m_call.box))
      /\ ReferencePixels <= 3
      /\ prev_fit = NoPlane )
    => /\ ~m_call.raised
       /\ m_call.area = 0
       /\ m_call.volume = ZeroVolume
       /\ grid_plane_model = NoPlane

\* 50 target points, no reference pixel, no earlier plane
C6_Witness ==
    /\ Measured
    /\ Len(m_call.class) = 50
    /\ ReferencePixels = 0
    /\ prev_fit = NoPlane
    /\ m_call.area = 0
    /\ grid_plane_model = NoPlane

\* C7: the area and the volume a call returns are never negative.
C7_NeverNegative ==
    Measured =>
      /\ m_per_pixel.x_res > 0 /\ m_per_pixel.y_res > 0
      /\ m_call.area >= 0
      /\ m_call.volume.num >= 0
      /\ m_call.volume.den > 0

\* a volume is returned although a measured point lies on the negative side
\* of the plane
C7_Witness ==
    /\ Measured
    /\ m_call.plane # NoPlane
    /\ m_call.volume.num > 0
    /\ \E ptc \in {ClassAlignedPtc(m_call.grid, m_call.class, m_call.plane)} :
         \E i \in 1..Len(ptc.pts) :
           MTimes(ptc.pts[i], ptc.den, m_call.plane) < 0

\* the pixels of the enlarged box of the last call that hold the code of its
\* class
ClassPixels ==
    LET crop == Crop(m_mask, m_call.box)
    IN  {q \in (1..Len(crop)) \X (1..Len(crop[1])) :
            crop[q[1]][q[2]] = ClassCode(m_call.class_name)}

C20_ShapeMismatchKeepsPlane ==
    [][(/\ m_call'.called
        /\ m_call'.depth_shape # Shape(Crop(m_mask, m_call'.box)))
          => /\ m_call'.raised
             /\ grid_plane_model' = grid_plane_model
      ]_<<m_call, grid_plane_model>>

\* a call stopped by the shapes after an earlier call had fitted a plane
C20_Witness ==
    /\ m_call.called
    /\ m_call.raised
    /\ m_call.depth_shape # Shape(Crop(m_mask, m_call.box))
    /\ grid_plane_model # NoPlane
    /\ grid_plane_model = prev_fit

-----------------------------------------------------------------------------
(* Properties of the plane functions *)

\* the point handed in lies on the plane handed in
OnPlane == Dot(Normal(pl_model), pl_points[1]) + pl_model[4] = 0

\* C23: for a plane with a non-zero normal, the distance returned is never
\* negative, and for a point on the plane it is 0 and the projected point
\* is the point handed in
C23_OnPlaneIsFixed ==
    (scenario = "project" /\ pl_out # <<>>) =>
        /\ pl_out.distance >= 0
        /\ OnPlane =>
              /\ pl_out.distance = 0
              /\ pl_out.projected_point =
                     [k \in 1..3 |-> Dot(Normal(pl_model), Normal(pl_model))
                                       * pl_points[1][k]]

\* a point on a plane that does not pass through the origin was projected
C23_Witness ==
    /\ scenario = "project" /\ pl_out # <<>>
    /\ OnPlane
    /\ pl_model[4] # 0
    /\ pl_points[1] # <<0, 0, 0>>

\* the input points whose bin_key is key
PointsOfBin(key) ==
    {i \in 1..Len(pl_points) : pl_out.keys[i] = key}

\* C25: the points are binned into an n x n grid, bin indices 0..n-1 on
\* each axis; at most n * n points are returned, one per occupied bin, each
\* the point of lowest z of its bin
C25_OnePointPerGridCell ==
    (scenario = "bins" /\ pl_out # <<>>) =>
        /\ Len(pl_out.points) <= pl_n * pl_n
        /\ \A i \in 1..Len(pl_out.keys) :
              /\ pl_out.keys[i][1] \in 0..(pl_n - 1)
              /\ pl_out.keys[i][2] \in 0..(pl_n - 1)
        /\ pl_out.keys # <<>> =>
              /\ Len(pl_out.points) =
                     Cardinality({pl_out.keys[i] : i \in 1..Len(pl_points)})
              /\ \A i \in 1..Len(pl_points) :
                    \E k \in 1..Len(pl_out.points) :
                        \E j \in PointsOfBin(pl_out.keys[i]) :
                            /\ pl_out.points[k] = pl_points[j]
                            /\ \A l \in PointsOfBin(pl_out.keys[i]) :
                                  pl_points[j][3] <= pl_points[l][3]

\* the plane returned is z = 2x + 3y + 5: the normal is a multiple of
\* (2, 3, -1) and d is the same multiple of 5
IsKnownPlane(plane) ==
    /\ plane[3] # 0
    /\ plane[1] = -2 * plane[3]
    /\ plane[2] = -3 * plane[3]
    /\ plane[4] = -5 * plane[3]

Cross(u, v) ==
    <<u[2] * v[3] - u[3] * v[2],
      u[3] * v[1] - u[1] * v[3],
      u[1] * v[2] - u[2] * v[1]>>

\* the points of the sequence are all on one line
Collinear(points) ==
    \A i, j \in 1..Len(points) :
        Cross([k \in 1..3 |-> points[i][k] - points[1][k]],
              [k \in 1..3 |-> points[j][k] - points[1][k]]) = <<0, 0, 0>>

\* C24, as stated: for points exactly on z = 2x + 3y + 5 the plane returned
\* has a normal parallel to (2, 3, -1) and the d of that equation
C24_KnownPlaneRecovered ==
    (scenario = "fit" /\ pl_out # <<>>) => IsKnownPlane(pl_out.plane)

\* C24, amended: the same, for clouds whose candidate points (the points the
\* binning keeps) are not all on one line
C24_KnownPlaneRecoveredWhenSpanned ==
    (scenario = "fit" /\ pl_out # <<>> /\ ~Collinear(pl_out.candidates)) =>
        IsKnownPlane(pl_out.plane)

\* a plane was fitted to three candidate points that span the plane
C24_Witness ==
    /\ scenario = "fit" /\ pl_out # <<>>
    /\ Len(pl_out.candidates) = 3
    /\ ~Collinear(pl_out.candidates)
    /\ IsKnownPlane(pl_out.plane)

-----------------------------------------------------------------------------
(* Properties of get_original_image_section *)

\* the sections read before any rectification, and those read after one
ReadBefore == {k \in 1..Len(sec_log) :
                  sec_log[k].snips = 0 /\ sec_log[k].error = ""}
ReadAfter == {k \in 1..Len(sec_log) :
                 sec_log[k].snips > 0 /\ sec_log[k].error = ""}

\* y1 and y2 of every stored column box are the common vertical extent
\* (smallest y1, image height) once a rectification ran, and the structure
\* box is the one set_detected_boxes stored
ColumnsOverwritten ==
    (scenario = "section" /\ snip_log # <<>> /\ collumn_boxes # <<>>) =>
        /\ \A k \in 1..Len(collumn_boxes) :
              /\ collumn_boxes[k][2] = snip_log[1].boxes[1][2]
              /\ collumn_boxes[k][2] =
                     SetMin({snip_log[1].returned[j][1][2] :
                                j \in 1..Len(snip_log[1].returned)})
              /\ collumn_boxes[k][4] = img[2]
        /\ barrier_box = <<0, 0, MaxX, MaxY>>

-----------------------------------------------------------------------------
(* Properties of ApexPipeline.run *)

\* the calls of one run, and the calls whose detection was reported
CallsOfRun(r) == SelectSeq(p_log, LAMBDA c : c.run = r)
ReportedCalls == SelectSeq(p_log, LAMBDA c : c.reported)

\* the boxes of the image in the order run() visits them
AllBoxes == p_detected[1] \o p_detected[2] \o p_detected[3]

\* the run r went through all its classes
RunComplete(r) ==
    /\ p_segmented = "found"
    /\ r < p_runs \/ (r = p_runs /\ p_pc \in {"draw", "returned"})

\* C21: a detection without a usable plane gets (0, 0) and is dropped by the
\* guard on the area, every reported detection has an area of at least 10,
\* and the boxes after it, of its class and of the later classes, are all
\* processed: the run is not aborted
C21_NoPlaneDetectionSkipped ==
    scenario = "pipeline" =>
        /\ \A k \in 1..Len(p_log) :
              p_log[k].no_plane =>
                  /\ p_log[k].area = 0
                  /\ p_log[k].volume = ZeroVolume
                  /\ ~p_log[k].reported
        /\ \A d \in 1..Len(detections_metrics) :
              detections_metrics[d].area >= 10
        /\ p_segmented = "found" => p_pc # "raised"
        /\ \A r \in 1..p_runs :
              /\ Len(CallsOfRun(r)) <= Len(AllBoxes)
              /\ \A i \in 1..Len(CallsOfRun(r)) :
                    CallsOfRun(r)[i].box_in = AllBoxes[i]
              /\ RunComplete(r) => Len(CallsOfRun(r)) = Len(AllBoxes)

\* a run reached its end after a detection without plane was dropped and a
\* later detection was reported
C21_Witness ==
    /\ scenario = "pipeline"
    /\ p_pc = "returned" /\ p_runs = 1
    /\ \E k, j \in 1..Len(p_log) :
          /\ k < j
          /\ p_log[k].no_plane
          /\ p_log[j].reported

\* the call k is the first of its run
FirstOfRun(k) == k = 1 \/ p_log[k - 1].run # p_log[k].run

\* C22: no plane is stored when a run starts, so a detection is never
\* measured against a plane fitted in an earlier run: a call finds a plane
\* stored only if an earlier call of its own run had more than 3 reference
\* points
C22_PlaneScopedToOneRun ==
    scenario = "pipeline" =>
        /\ (p_pc = "classes" /\ CallsOfRun(p_runs) = <<>>) =>
               grid_plane_model = NoPlane
        /\ \A k \in 1..Len(p_log) :
              /\ FirstOfRun(k) => ~p_log[k].had_plane
              /\ p_log[k].had_plane =>
                    \E j \in 1..(k - 1) :
                        /\ p_log[j].run = p_log[k].run
                        /\ p_log[j].grid_n > 3
              /\ (p_log[k].grid_n <= 3 /\ ~p_log[k].had_plane) =>
                    p_log[k].no_plane

\* the first run fitted a plane, and the first detection of the second run,
\* with too few reference points, got no plane
C22_Witness ==
    /\ scenario = "pipeline"
    /\ \E j, k \in 1..Len(p_log) :
          /\ p_log[j].run = 1 /\ p_log[j].grid_n > 3
          /\ p_log[k].run = 2 /\ FirstOfRun(k)
          /\ p_log[k].grid_n <= 3 /\ p_log[k].no_plane

\* C26: every call leaves the enlarged, clamped box in the list the caller
\* handed in, whether it returns (0, 0) or a measure; the box of every entry
\* of detections_metrics, and every box drawn, is that enlarged box
C26_StoredBoxIsEnlarged ==
    scenario = "pipeline" =>
        /\ \A k \in 1..Len(p_log) :
              p_log[k].box_after =
                  EnlargeBox(p_log[k].box_in, Shape(m_mask))
        /\ Len(detections_metrics) = Len(ReportedCalls)
        /\ \A d \in 1..Len(detections_metrics) :
              detections_metrics[d].box =
                  EnlargeBox(ReportedCalls[d].box_in, Shape(m_mask))
        /\ Len(p_drawn) <= Len(detections_metrics)
        /\ \A d \in 1..Len(p_drawn) :
              p_drawn[d] = EnlargeBox(ReportedCalls[d].box_in, Shape(m_mask))

\* a reported detection whose stored and drawn box is larger than the box
\* detected, after a call that returned (0, 0) on a box that also grew
C26_Witness ==
    /\ scenario = "pipeline"
    /\ p_drawn # <<>>
    /\ p_drawn[1] # ReportedCalls[1].box_in
    /\ \E k \in 1..Len(p_log) :
          p_log[k].no_plane /\ p_log[k].box_after # p_log[k].box_in

IsPrefix(s, t) == Len(s) <= Len(t) /\ \A i \in 1..Len(s) : t[i] = s[i]

\* the entries of detections_metrics are the reported calls, in the order of
\* the calls: those of the first run first
InOrderOfRuns ==
    scenario = "pipeline" =>
        /\ Len(detections_metrics) = Len(ReportedCalls)
        /\ \A d \in 1..Len(detections_metrics) :
              /\ detections_metrics[d].area = ReportedCalls[d].area
              /\ detections_metrics[d].volume = ReportedCalls[d].volume
              /\ detections_metrics[d].class = ReportedCalls[d].class
        /\ \A j, k \in 1..Len(p_log) : j < k => p_log[j].run <= p_log[k].run

\* C28: detections_metrics is only ever appended to, also from one run to
\* the next, so after two runs it holds the detections of both, those of the
\* first run first
C28_DetectionsAccumulate ==
    /\ []InOrderOfRuns
    /\ [][IsPrefix(detections_metrics, detections_metrics')]_detections_metrics

\* two runs were made and each reported a detection
C28_Witness ==
    /\ scenario = "pipeline"
    /\ p_runs = 2 /\ p_pc = "returned"
    /\ \E j, k \in 1..Len(p_log) :
          /\ p_log[j].run = 1 /\ p_log[j].reported
          /\ p_log[k].run = 2 /\ p_log[k].reported
    /\ Len(detections_metrics) >= 2

\* the pixels <<column, row>> of the mask inside a box that hold the code
\* of a class
ClassPixelsIn(box, class_name) ==
    {q \in (box[1]..(box[3] - 1)) \X (box[2]..(box[4] - 1)) :
        m_mask[q[2] + 1][q[1] + 1] = ClassCode(class_name)}

\* the area of one pixel
PixelArea == p_ratios.x_res * p_ratios.y_res

\* C29: the area reported for a detection counts every pixel of its class
\* inside its enlarged box, also those of another detection of the class:
\* two reported detections of one class each count the class pixels their
\* enlarged boxes share
C29_SharedPixelsCountedTwice ==
    scenario = "pipeline" =>
        /\ \A k \in 1..Len(p_log) :
              p_log[k].reported =>
                  p_log[k].area =
                      Cardinality(ClassPixelsIn(p_log[k].box, p_log[k].class))
                        * PixelArea
        /\ \A j, k \in 1..Len(p_log) :
              ( /\ j # k
                /\ p_log[j].run = p_log[k].run
                /\ p_log[j].class = p_log[k].class
                /\ p_log[j].reported /\ p_log[k].reported ) =>
                  p_log[j].area + p_log[k].area >=
                      2 * PixelArea
                        * Cardinality(ClassPixelsIn(p_log[j].box,
                                                    p_log[j].class)
                                      \cap ClassPixelsIn(p_log[k].box,
                                                         p_log[k].class))

\* two detections of one class were reported in one run and their areas add
\* up to more than the area of all the pixels of the class in the mask
C29_Witness ==
    /\ scenario = "pipeline"
    /\ \E j, k \in 1..Len(p_log) :
          /\ j < k
          /\ p_log[j].run = p_log[k].run
          /\ p_log[j].class = p_log[k].class
          /\ p_log[j].reported /\ p_log[k].reported
          /\ p_log[j].box_in # p_log[k].box_in
          /\ p_log[j].area + p_log[k].area >
                 PixelArea
                   * Cardinality(ClassPixelsIn(<<0, 0, Len(m_mask[1]),
                                                 Len(m_mask)>>,
                                               p_log[j].class))

-----------------------------------------------------------------------------
(* Properties of ApexWorker.run *)

\* the percentages yielded by the run never decrease
ProgressNeverDecreases ==
    \A i, j \in 1..Len(p_progress) : i < j => p_progress[i] <= p_progress[j]

\* the generator ended without an exception
GeneratorEnded == scenario = "worker" /\ p_pc = "returned"

FinishedEmitted ==
    \E k \in 1..Len(w_emitted) : w_emitted[k] = "finished"

\* C30: once the generator of the pipeline has ended, after the early stop
\* at 30 as after the last yield at 100, finished is eventually emitted; the
\* percentages yielded never decrease
C30_FinishedAlwaysEmitted ==
    /\ []ProgressNeverDecreases
    /\ GeneratorEnded ~> FinishedEmitted

====
